---- MODULE Spec2Model ----
(***************************************************************************)
(* A model of the google-docs-mcp converter: the edit request builder, the *)
(* inline span parser and the markdown renderer of markdown_renderer.py,   *)
(* and the tab walker, the plain text extractor and the operations of      *)
(* GoogleDocsService of docs.py; then the OAuth flows of                   *)
(* GoogleAuthManager of auth.py and append_text, each called from the      *)
(* threads of the pool.                                                    *)
(*                                                                         *)
(* A Python str is a sequence of one-character strings, so len() is Len    *)
(* and + is \o.  None is the value NoneV, and an optional value that has   *)
(* to stay a record is a sequence of no or one element.  A dict the code   *)
(* only copies into a request is a record of the keys that tell its kinds  *)
(* apart; the "fields" entry of a style request is the comma-joined key    *)
(* list of that dict, a function of it, and is not carried.                *)
(***************************************************************************)
EXTENDS Integers, Sequences, FiniteSets, TLC

VARIABLES
    builder,      \* DocsRequestBuilder: [cursor, requests, tab_id]
    start_index,  \* the start_index the builder was constructed with
    lastCall,     \* the last call made on the builder, and what it saw
    children,     \* _parse_inline: inline_token.children
    pos,          \* _parse_inline: children consumed by the loop
    inl,          \* _parse_inline: [text_parts, spans, cursor, stack]
    parsed,       \* _parse_inline: the returned (text, spans), and whether it returned
    markdown,     \* build_markdown_requests: markdown_text, as its blocks
    tokens,       \* build_markdown_requests: tokens
    ti,           \* build_markdown_requests and _render_list: i
    rmode,        \* which loop of the renderer runs: main, list, item, done, idle
    rlist,        \* _render_list: list_type
    doc,          \* the fetched document as the tab walker reads it: [title, tabs]
    tabOp,        \* the last tab operation on doc and its result
    document,     \* _extract_plain_text: document["body"]["content"]
    ei,           \* _extract_plain_text: body elements consumed by the loop
    ext,          \* _extract_plain_text: [chunks, in_code_block]
    extracted,    \* _extract_plain_text: the returned text, and whether it returned
    remote,       \* the remote service: [doc, content] of the one document addressed
    svc,          \* GoogleDocsService: the last operation, its remote calls and outcome
    pending_flows,\* GoogleAuthManager._pending_flows: the states that have a pending flow
    lock,         \* GoogleAuthManager._lock: the threads that hold it, none or one
    token_file,   \* config.token_file: every write to it, the last one is its content
    issued,       \* the states flow.authorization_url has generated so far
    auth,         \* the calls on the auth manager, one per thread of the pool
    appends       \* the append_text calls on the service, one per thread of the pool

builderVars == <<builder, start_index, lastCall>>
inlineVars == <<children, pos, inl, parsed>>
renderVars == <<markdown, tokens, ti, rmode, rlist>>
tabVars == <<doc, tabOp>>
extractVars == <<document, ei, ext, extracted>>
serviceVars == <<remote, svc>>
authVars == <<pending_flows, lock, token_file, issued, auth>>
appendVars == <<appends>>
vars == <<builder, start_index, lastCall, children, pos, inl, parsed, markdown, tokens,
          ti, rmode, rlist, doc, tabOp, document, ei, ext, extracted, serviceVars,
          authVars, appendVars>>

----------------------------------------------------------------------------
(* Values and strings *)

NoneV == "None"
NL == "\n"

\* Python truthiness of an optional string: None and "" are false.
Truthy(x) == x /= NoneV /\ x /= ""

RECURSIVE SeqsUpTo(_, _)
\* the sequences over S of length at most n
SeqsUpTo(S, n) ==
    IF n = 0 THEN {<<>>}
    ELSE LET shorter == SeqsUpTo(S, n - 1)
         IN  shorter \cup {Append(s, x) : s \in {t \in shorter : Len(t) = n - 1}, x \in S}

\* str.endswith("\n")
EndsWithNL(text) == Len(text) > 0 /\ text[Len(text)] = NL

\* str.rstrip("\n"): every trailing newline goes
RECURSIVE RStripNL(_)
RStripNL(text) == IF EndsWithNL(text) THEN RStripNL(SubSeq(text, 1, Len(text) - 1)) ELSE text

\* the whitespace of str.strip() among the characters of the model
IsSpace(c) == c \in {" ", NL}

RECURSIVE LStrip(_)
LStrip(text) == IF text /= <<>> /\ IsSpace(Head(text)) THEN LStrip(Tail(text)) ELSE text

RECURSIVE RStrip(_)
RStrip(text) ==
    IF text /= <<>> /\ IsSpace(text[Len(text)]) THEN RStrip(SubSeq(text, 1, Len(text) - 1))
    ELSE text

\* str.strip()
Strip(text) == LStrip(RStrip(text))

\* "".join(parts)
RECURSIVE Join(_)
Join(parts) == IF parts = <<>> THEN <<>> ELSE Head(parts) \o Join(Tail(parts))

----------------------------------------------------------------------------
(* DocsRequestBuilder *)

Span(start, end, style) == [start |-> start, end |-> end, style |-> style]

\* a text style dict: bold, italic, link (with its url), mono (Roboto Mono),
\* code (Roboto Mono, 9 pt, background 0.95 on the three channels)
TextStyle(kind, url) == [kind |-> kind, url |-> url]

\* a paragraph style dict: its namedStyleType if it has one, and whether it is
\* the indent and spacing of a code block; NoStyle is None or {}
ParagraphStyle(namedStyleType, block) == [namedStyleType |-> namedStyleType, block |-> block]
NoStyle == ParagraphStyle(NoneV, FALSE)

\* A request of the batch.  insertText carries location.index in startIndex (and
\* endIndex), the others their range; tabId is NoneV when the key is absent.
Request(op, startIndex, endIndex, tab_id, text, paragraphStyle, textStyle, preset) ==
    [op |-> op, startIndex |-> startIndex, endIndex |-> endIndex,
     tabId |-> IF Truthy(tab_id) THEN tab_id ELSE NoneV,
     text |-> text, paragraphStyle |-> paragraphStyle, textStyle |-> textStyle,
     bulletPreset |-> preset]

NoTextStyle == TextStyle(NoneV, NoneV)

NewBuilder(start, tab_id) == [cursor |-> start, requests |-> <<>>, tab_id |-> tab_id]

\* _insert_text advancing the cursor by one per call, not by len(text)
InsertTextOp_CursorByOne(b, text) ==
    IF text = <<>> THEN [b |-> b, ret |-> b.cursor]
    ELSE [b |-> [b EXCEPT
                   !.requests = Append(@, Request("insertText", b.cursor, b.cursor, b.tab_id,
                                                  text, NoStyle, NoTextStyle, NoneV)),
                   !.cursor = @ + 1],
          ret |-> b.cursor]

\* _insert_text: [b |-> the builder after the call, ret |-> the returned index]
InsertTextOp(b, text) ==
    IF text = <<>> THEN [b |-> b, ret |-> b.cursor]
    ELSE [b |-> [b EXCEPT
                   !.requests = Append(@, Request("insertText", b.cursor, b.cursor, b.tab_id,
                                                  text, NoStyle, NoTextStyle, NoneV)),
                   !.cursor = @ + Len(text)],
          ret |-> b.cursor]

\* __init__
InitBuilder(start, prepend_newline, tab_id) ==
    IF prepend_newline THEN InsertTextOp(NewBuilder(start, tab_id), <<NL>>).b
    ELSE NewBuilder(start, tab_id)

\* the text add_paragraph inserts for a non-empty text
TextToInsert(text) == IF ~EndsWithNL(text) THEN text \o <<NL>> ELSE text

\* the updateTextStyle requests of the loop over spans, in span order
RECURSIVE SpanRequests(_, _, _)
SpanRequests(spans, start, tab_id) ==
    IF spans = <<>> THEN <<>>
    ELSE LET span == Head(spans)
             rest == SpanRequests(Tail(spans), start, tab_id)
         IN  IF span.end <= span.start THEN rest
             ELSE <<Request("updateTextStyle", start + span.start, start + span.end,
                            tab_id, <<>>, NoStyle, span.style, NoneV)>> \o rest

BulletPreset(list_type) ==
    IF list_type = "ordered" THEN "NUMBERED_DECIMAL_ALPHA_ROMAN"
    ELSE "BULLET_DISC_CIRCLE_SQUARE"

\* add_paragraph emitting the bullets before the text styles
AddParagraphOp_BulletsFirst(b, text, paragraph_style, spans, list_type) ==
    IF text = <<>> THEN b
    ELSE LET ins == InsertTextOp(b, TextToInsert(text))
             start == ins.ret
             end == start + Len(TextToInsert(text))
         IN  [ins.b EXCEPT !.requests =
                 @ \o (IF paragraph_style /= NoStyle
                       THEN <<Request("updateParagraphStyle", start, end, b.tab_id,
                                      <<>>, paragraph_style, NoTextStyle, NoneV)>>
                       ELSE <<>>)
                   \o (IF Truthy(list_type)
                       THEN <<Request("createParagraphBullets", start, end, b.tab_id,
                                      <<>>, NoStyle, NoTextStyle, BulletPreset(list_type))>>
                       ELSE <<>>)
                   \o SpanRequests(spans, start, b.tab_id)]

\* add_paragraph: the builder after the call
AddParagraphOp(b, text, paragraph_style, spans, list_type) ==
    IF text = <<>> THEN b
    ELSE LET text_to_insert == TextToInsert(text)
             text_length == Len(text_to_insert)
             ins == InsertTextOp(b, text_to_insert)
             start == ins.ret
             end == start + text_length
             styleReq ==
                 IF paragraph_style /= NoStyle
                 THEN <<Request("updateParagraphStyle", start, end, b.tab_id,
                                <<>>, paragraph_style, NoTextStyle, NoneV)>>
                 ELSE <<>>
             bulletReq ==
                 IF Truthy(list_type)
                 THEN <<Request("createParagraphBullets", start, end, b.tab_id,
                                <<>>, NoStyle, NoTextStyle, BulletPreset(list_type))>>
                 ELSE <<>>
         IN  [ins.b EXCEPT !.requests =
                 @ \o styleReq \o SpanRequests(spans, start, b.tab_id) \o bulletReq]

\* a call on the builder as the properties read it: its arguments, the cursor and
\* the number of requests before it, and how many calls and spans came so far
Call(op, text, paragraph_style, spans, list_type, b) ==
    [op |-> op, text |-> text, paragraph_style |-> paragraph_style,
     spans |-> spans, list_type |-> list_type,
     cursor |-> b.cursor, nreq |-> Len(b.requests), n |-> 0, nspans |-> 0]

----------------------------------------------------------------------------
(* _parse_inline *)

\* a child token of an inline token: type, content, and the href attribute
Child(type, content, href) == [type |-> type, content |-> content, href |-> href]

\* a frame of the stack of open styles; meta is {"href": href} for a link
Frame(kind, start, href) == [kind |-> kind, start |-> start, href |-> href]

InlineStart == [text_parts |-> <<>>, spans |-> <<>>, cursor |-> 0, stack |-> <<>>]

\* push(kind, meta)
Push(st, kind, href) == [st EXCEPT !.stack = Append(@, Frame(kind, st.cursor, href))]

\* the index pop(kind) removes: the topmost frame of that kind, 0 when none
RECURSIVE TopmostOfKind(_, _, _)
TopmostOfKind(stack, kind, idx) ==
    IF idx = 0 THEN 0
    ELSE IF stack[idx].kind = kind THEN idx
    ELSE TopmostOfKind(stack, kind, idx - 1)

RemoveAt(seq, idx) == SubSeq(seq, 1, idx - 1) \o SubSeq(seq, idx + 1, Len(seq))

\* a closing delimiter that pops only the top frame, and only if it has the kind
Close_TopOnly(st, kind) ==
    LET idx == IF st.stack /= <<>> /\ st.stack[Len(st.stack)].kind = kind
               THEN Len(st.stack) ELSE 0
    IN  IF idx = 0 THEN st
        ELSE LET entry == st.stack[idx]
                 popped == [st EXCEPT !.stack = RemoveAt(@, idx)]
             IN  IF /\ entry.start < st.cursor
                    /\ (kind = "link" => Truthy(entry.href))
                 THEN [popped EXCEPT !.spans =
                          Append(@, Span(entry.start, st.cursor, TextStyle(kind, entry.href)))]
                 ELSE popped

\* a closing delimiter without the test that the pair encloses text
Close_EmitsEmpty(st, kind) ==
    LET idx == TopmostOfKind(st.stack, kind, Len(st.stack))
    IN  IF idx = 0 THEN st
        ELSE LET entry == st.stack[idx]
                 popped == [st EXCEPT !.stack = RemoveAt(@, idx)]
             IN  IF kind = "link" => Truthy(entry.href)
                 THEN [popped EXCEPT !.spans =
                          Append(@, Span(entry.start, st.cursor, TextStyle(kind, entry.href)))]
                 ELSE popped

\* a closing delimiter: pop(kind), then the span if the entry qualifies
Close(st, kind) ==
    LET idx == TopmostOfKind(st.stack, kind, Len(st.stack))
    IN  IF idx = 0 THEN st
        ELSE LET entry == st.stack[idx]
                 popped == [st EXCEPT !.stack = RemoveAt(@, idx)]
             IN  IF /\ entry.start < st.cursor
                    /\ (kind = "link" => Truthy(entry.href))
                 THEN [popped EXCEPT !.spans =
                          Append(@, Span(entry.start, st.cursor, TextStyle(kind, entry.href)))]
                 ELSE popped

\* one iteration of the loop over children
ParseChild(st, child) ==
    CASE child.type = "text" ->
            [st EXCEPT !.text_parts = Append(@, child.content),
                       !.cursor = @ + Len(child.content)]
      [] child.type \in {"softbreak", "hardbreak"} ->
            [st EXCEPT !.text_parts = Append(@, <<NL>>), !.cursor = @ + 1]
      [] child.type = "strong_open" -> Push(st, "bold", NoneV)
      [] child.type = "strong_close" -> Close(st, "bold")
      [] child.type = "em_open" -> Push(st, "italic", NoneV)
      [] child.type = "em_close" -> Close(st, "italic")
      [] child.type = "link_open" -> Push(st, "link", child.href)
      [] child.type = "link_close" -> Close(st, "link")
      [] child.type = "code_inline" ->
            [st EXCEPT !.text_parts = Append(@, child.content),
                       !.cursor = @ + Len(child.content),
                       !.spans = Append(@, Span(st.cursor, st.cursor + Len(child.content),
                                                TextStyle("mono", NoneV)))]
      [] OTHER -> st

\* the value _parse_inline returns
InlineResult(st) == [text |-> Join(st.text_parts), spans |-> st.spans]

RECURSIVE ParseFrom(_, _)
ParseFrom(st, kids) ==
    IF kids = <<>> THEN st ELSE ParseFrom(ParseChild(st, Head(kids)), Tail(kids))

\* _parse_inline as a function of the children
ParseInline(kids) == InlineResult(ParseFrom(InlineStart, kids))

----------------------------------------------------------------------------
(* build_markdown_requests and _render_list *)

\* a token of md.parse: type, tag (a str), content (a str), children
Token(type, tag, content, kids) ==
    [type |-> type, tag |-> tag, content |-> content, children |-> kids]

Digits == <<"0", "1", "2", "3", "4", "5", "6", "7", "8", "9">>

\* str.isdigit()
IsDigit(s) == s /= <<>> /\ \A i \in 1..Len(s) : \E d \in 1..10 : Digits[d] = s[i]

DigitValue(c) == (CHOOSE d \in 1..10 : Digits[d] = c) - 1

\* int() of a str of digits
RECURSIVE IntOf(_)
IntOf(s) == IF s = <<>> THEN 0 ELSE 10 * IntOf(SubSeq(s, 1, Len(s) - 1)) + DigitValue(s[Len(s)])

Min(a, b) == IF a < b THEN a ELSE b

\* the level of a heading_open token
HeadingLevel(tag) ==
    LET level_str == IF tag /= <<>> /\ Head(tag) = "h" THEN Tail(tag) ELSE tag
    IN  IF IsDigit(level_str) THEN IntOf(level_str) ELSE 1

\* f"HEADING_{n}" for the n that min(level, 6) can be
HeadingNames ==
    <<"HEADING_0", "HEADING_1", "HEADING_2", "HEADING_3", "HEADING_4", "HEADING_5", "HEADING_6">>

HeadingStyle(level) == ParagraphStyle(HeadingNames[Min(level, 6) + 1], FALSE)

\* the paragraph style and the span of a fenced code block
CodeParagraphStyle == ParagraphStyle(NoneV, TRUE)
CodeSpan(code_text) == Span(0, Len(code_text), TextStyle("code", NoneV))

\* close_type of _render_list
CloseType(list_type) ==
    IF list_type = "bullet" THEN "bullet_list_close" ELSE "ordered_list_close"

----------------------------------------------------------------------------
(* The tab walker of GoogleDocsService *)

\* a tab: tabId and title are tabProperties.tabId and tabProperties.title,
\* NoneV when the key (or tabProperties) is absent
Tab(tabId, title, childTabs) == [tabId |-> tabId, title |-> title, childTabs |-> childTabs]

TabMetadata(tab_id, title, depth, parent_id) ==
    [tab_id |-> tab_id, title |-> title, depth |-> depth, parent_id |-> parent_id]

\* _iter_tabs with the child tabs yielded after the siblings
RECURSIVE IterTabs_SiblingsFirst(_, _, _)
IterTabs_SiblingsFirst(tabs, depth, parent_id) ==
    IF tabs = <<>> THEN <<>>
    ELSE <<[tab |-> Head(tabs), depth |-> depth, parent_id |-> parent_id]>>
         \o IterTabs_SiblingsFirst(Tail(tabs), depth, parent_id)
         \o IterTabs_SiblingsFirst(Head(tabs).childTabs, depth + 1, Head(tabs).tabId)

\* _iter_tabs: the (tab, depth, parent_id) triples in the order yielded
RECURSIVE IterTabs(_, _, _)
IterTabs(tabs, depth, parent_id) ==
    IF tabs = <<>> THEN <<>>
    ELSE <<[tab |-> Head(tabs), depth |-> depth, parent_id |-> parent_id]>>
         \o IterTabs(Head(tabs).childTabs, depth + 1, Head(tabs).tabId)
         \o IterTabs(Tail(tabs), depth, parent_id)

\* _flatten_tabs
FlattenTabs(d) ==
    LET triples == IterTabs(d.tabs, 0, NoneV)
    IN  [i \in 1..Len(triples) |-> triples[i].tab]

\* _list_tab_metadata without the entry for a document that has no tabs
ListTabMetadata_NoSynthetic(d) ==
    LET triples == IterTabs(d.tabs, 0, NoneV)
    IN  [i \in 1..Len(triples) |->
            TabMetadata(triples[i].tab.tabId, triples[i].tab.title,
                        triples[i].depth, triples[i].parent_id)]

\* _list_tab_metadata
ListTabMetadata(d) ==
    LET triples == IterTabs(d.tabs, 0, NoneV)
        metadata == [i \in 1..Len(triples) |->
                        TabMetadata(triples[i].tab.tabId, triples[i].tab.title,
                                    triples[i].depth, triples[i].parent_id)]
    IN  IF Len(triples) = 0 THEN <<TabMetadata(NoneV, d.title, 0, NoneV)>> ELSE metadata

\* the result of _resolve_tab: the pair returned (tab is <<>> for None, <<t>> for
\* a tab), or the GoogleDocsError raised with the parts of its message
Resolved(tab, tab_id) == [raised |-> FALSE, message |-> <<>>, tab |-> tab, tab_id |-> tab_id]
TabNotFound(tab_id) ==
    [raised |-> TRUE, message |-> <<"Tab '", tab_id, "' not found in document.">>,
     tab |-> <<>>, tab_id |-> NoneV]

\* the first index of a tab with that id, 0 when there is none
RECURSIVE FirstWithId(_, _, _)
FirstWithId(flat, tab_id, i) ==
    IF i > Len(flat) THEN 0
    ELSE IF flat[i].tabId = tab_id THEN i
    ELSE FirstWithId(flat, tab_id, i + 1)

\* _resolve_tab answering an absent id with the first tab
ResolveTab_DefaultWhenAbsent(d, tab_id) ==
    LET flat == FlattenTabs(d)
        hit == FirstWithId(flat, tab_id, 1)
    IN  IF Truthy(tab_id) /\ hit > 0 THEN Resolved(<<flat[hit]>>, tab_id)
        ELSE IF Len(flat) > 0 THEN Resolved(<<flat[1]>>, flat[1].tabId)
        ELSE Resolved(<<>>, NoneV)

\* _resolve_tab
ResolveTab(d, tab_id) ==
    LET flat == FlattenTabs(d)
    IN  IF Truthy(tab_id)
        THEN LET hit == FirstWithId(flat, tab_id, 1)
             IN  IF hit > 0 THEN Resolved(<<flat[hit]>>, tab_id) ELSE TabNotFound(tab_id)
        ELSE IF Len(flat) > 0 THEN Resolved(<<flat[1]>>, flat[1].tabId)
        ELSE Resolved(<<>>, NoneV)

----------------------------------------------------------------------------
(* GoogleDocsService: the operations and their remote calls *)

\* what an operation ends with: kind is DocumentSummary, DocumentContent or
\* TabMetadata for a returned value and GoogleDocsError or HttpError for a
\* raised one, with the message of the error; "none" while it runs
Outcome(kind, message, content, tab_id, metadata) ==
    [kind |-> kind, message |-> message, content |-> content, tab_id |-> tab_id,
     metadata |-> metadata]
NoOutcome == Outcome("none", <<>>, <<>>, NoneV, <<>>)
Raise(kind, message) == Outcome(kind, message, <<>>, NoneV, <<>>)
IsRaised(out) == out.kind \in {"GoogleDocsError", "HttpError"}

\* the remote service: the document the Docs API returns and the markdown
\* text Drive exports for it
Remote(d, content) == [doc |-> d, content |-> content]

\* an operation under way: the remote service, the remote calls issued so
\* far, and the value returned or the error raised by the last step
Run(rem, calls, out) == [remote |-> rem, calls |-> calls, out |-> out]

\* request.execute(): the call is issued; it raises HttpError, whose reason
\* is the message of the remote service, when it is the fail-th call
Execute(run, api, fail, reason) ==
    LET failed == Len(run.calls) + 1 = fail
    IN  [run EXCEPT
           !.calls = Append(@, [api |-> api, ok |-> ~failed,
                                reason |-> IF failed THEN reason ELSE <<>>]),
           !.out = IF failed THEN Raise("HttpError", reason) ELSE NoOutcome]

\* except HttpError as exc: raise GoogleDocsError(exc.reason) from exc
ExceptHttpError(run) ==
    IF run.out.kind = "HttpError"
    THEN [run EXCEPT !.out = Raise("GoogleDocsError", run.out.message)]
    ELSE run

\* _get_document: the document is run.remote.doc when the call returns
GetDocument(run, fail, reason) == Execute(run, "documents.get", fail, reason)

\* fetch_document
FetchDocument(run, tab_id, fail, reason) ==
    LET got == GetDocument(run, fail, reason)
        resolved == ResolveTab(got.remote.doc, tab_id)
        exported == Execute(got, "files.export", fail, reason)
    IN  ExceptHttpError(
            IF IsRaised(got.out) THEN got
            ELSE IF resolved.raised
            THEN [got EXCEPT !.out = Raise("GoogleDocsError", resolved.message)]
            ELSE IF IsRaised(exported.out) THEN exported
            ELSE [exported EXCEPT !.out =
                     Outcome("DocumentContent", <<>>, exported.remote.content,
                             resolved.tab_id, <<>>)])

\* replace_document with the Drive update issued before the tab is resolved
ReplaceDocument_UpdateFirst(run, text, tab_id, fail, reason) ==
    LET got == GetDocument(run, fail, reason)
        updated == Execute(got, "files.update", fail, reason)
        resolved == ResolveTab(got.remote.doc, tab_id)
    IN  ExceptHttpError(
            IF IsRaised(got.out) THEN got
            ELSE IF IsRaised(updated.out) THEN updated
            ELSE IF resolved.raised
            THEN [updated EXCEPT !.remote.content = text,
                                 !.out = Raise("GoogleDocsError", resolved.message)]
            ELSE [updated EXCEPT !.remote.content = text,
                                 !.out = Outcome("DocumentSummary", <<>>, <<>>,
                                                 resolved.tab_id, <<>>)])

\* replace_document
ReplaceDocument(run, text, tab_id, fail, reason) ==
    LET got == GetDocument(run, fail, reason)
        resolved == ResolveTab(got.remote.doc, tab_id)
        updated == Execute(got, "files.update", fail, reason)
    IN  ExceptHttpError(
            IF IsRaised(got.out) THEN got
            ELSE IF resolved.raised
            THEN [got EXCEPT !.out = Raise("GoogleDocsError", resolved.message)]
            ELSE IF IsRaised(updated.out) THEN updated
            ELSE [updated EXCEPT !.remote.content = text,
                                 !.out = Outcome("DocumentSummary", <<>>, <<>>,
                                                 resolved.tab_id, <<>>)])

\* the text append_text writes: a blank line between the content and the text
CombinedContent(current_content, text) ==
    LET n == Len(current_content)
    IN  IF n > 0 /\ ~(n >= 2 /\ SubSeq(current_content, n - 1, n) = <<NL, NL>>)
        THEN IF EndsWithNL(current_content) THEN current_content \o <<NL>> \o text
             ELSE current_content \o <<NL, NL>> \o text
        ELSE current_content \o text

\* append_text
AppendText(run, text, tab_id, fail, reason) ==
    LET current_doc == FetchDocument(run, tab_id, fail, reason)
    IN  ExceptHttpError(
            IF IsRaised(current_doc.out) THEN current_doc
            ELSE ReplaceDocument(current_doc,
                                 CombinedContent(current_doc.out.content, text),
                                 tab_id, fail, reason))

\* create_document: initial_text is <<>> for None and for ""; created is the
\* tab list the remote service gives the new document
CreateDocument(run, title, initial_text, created, fail, reason) ==
    LET made == Execute(run, IF initial_text /= <<>> THEN "files.create"
                             ELSE "documents.create", fail, reason)
        stored == [made EXCEPT
                     !.remote = Remote([title |-> title, tabs |-> created], initial_text)]
        full == Execute(stored, "documents.get", fail, reason)
        tabs == full.remote.doc.tabs
    IN  ExceptHttpError(
            IF IsRaised(made.out) THEN made
            ELSE IF IsRaised(full.out) THEN full
            ELSE [full EXCEPT !.out =
                     Outcome("DocumentSummary", <<>>, <<>>,
                             IF tabs /= <<>> THEN tabs[1].tabId ELSE NoneV, <<>>)])

\* list_tabs
ListTabs(run, fail, reason) ==
    LET got == GetDocument(run, fail, reason)
    IN  IF IsRaised(got.out) THEN got
        ELSE [got EXCEPT !.out =
                 Outcome("TabMetadata", <<>>, <<>>, NoneV,
                         ListTabMetadata(got.remote.doc))]

----------------------------------------------------------------------------
(* _extract_plain_text and its helpers *)

\* U+E907, the marker of a native code block
CodeMarker == "<U+E907>"
\* U+0060, the grave accent, which a string of this language cannot hold
Backtick == "<U+0060>"
Fence == <<Backtick, Backtick, Backtick, NL>>

\* textStyle of a text run: weightedFontFamily.fontFamily ("" when absent) and
\* backgroundColor.color.rgbColor in hundredths (0 for an absent channel)
RunStyle(fontFamily, red, green, blue) ==
    [fontFamily |-> fontFamily, red |-> red, green |-> green, blue |-> blue]

\* a paragraph element: has_text_run is whether it carries a textRun
Element(has_text_run, content, textStyle) ==
    [has_text_run |-> has_text_run, content |-> content, textStyle |-> textStyle]

\* a paragraph: elements and paragraphStyle.namedStyleType ("" when absent)
Paragraph(elements, namedStyleType) ==
    [elements |-> elements, namedStyleType |-> namedStyleType]

\* a table cell: tableCellStyle's background and content, whose items are
\* <<p>> for a paragraph p and <<>> for anything else; a table is its rows
Cell(red, green, blue, content) ==
    [red |-> red, green |-> green, blue |-> blue, content |-> content]

\* a body element: kind is paragraph (a non-empty paragraph dict), table, or
\* other (a section break, an empty paragraph dict)
BodyParagraph(p) == [kind |-> "paragraph", paragraph |-> p, table |-> <<>>]
BodyTable(rows) == [kind |-> "table", paragraph |-> Paragraph(<<>>, ""), table |-> rows]
BodyOther == [kind |-> "other", paragraph |-> Paragraph(<<>>, ""), table |-> <<>>]

\* "Mono" in font_family or "Courier" in font_family, for the families of the model
HasMonospace(fontFamily) == fontFamily \in {"Roboto Mono", "Courier New"}

\* each channel > 0.9
HasGrayBg(s) == s.red > 90 /\ s.green > 90 /\ s.blue > 90

\* the paragraph test with the marker alone, without the test of the style
IsCodeBlockParagraph_MarkerOnly(paragraph) ==
    /\ paragraph.elements /= <<>>
    /\ paragraph.elements[1].has_text_run
    /\ paragraph.elements[1].content /= <<>>
    /\ paragraph.elements[1].content[1] = CodeMarker

\* _is_code_block_paragraph
IsCodeBlockParagraph(paragraph) ==
    /\ paragraph.elements /= <<>>
    /\ paragraph.elements[1].has_text_run
    /\ LET content == paragraph.elements[1].content
           text_style == paragraph.elements[1].textStyle
       IN  \/ content /= <<>> /\ content[1] = CodeMarker
           \/ HasMonospace(text_style.fontFamily) /\ HasGrayBg(text_style)

\* the text runs of a paragraph's elements, each if non-empty
RECURSIVE RunTexts(_)
RunTexts(elements) ==
    IF elements = <<>> THEN <<>>
    ELSE (IF Head(elements).has_text_run /\ Head(elements).content /= <<>>
          THEN <<Head(elements).content>> ELSE <<>>) \o RunTexts(Tail(elements))

RECURSIVE CellContentTexts(_)
CellContentTexts(content) ==
    IF content = <<>> THEN <<>>
    ELSE (IF Head(content) /= <<>> THEN RunTexts(Head(content)[1].elements) ELSE <<>>)
         \o CellContentTexts(Tail(content))

RECURSIVE CellsTexts(_)
CellsTexts(cells) ==
    IF cells = <<>> THEN <<>>
    ELSE CellContentTexts(Head(cells).content) \o CellsTexts(Tail(cells))

RECURSIVE RowsTexts(_)
RowsTexts(rows) == IF rows = <<>> THEN <<>> ELSE CellsTexts(Head(rows)) \o RowsTexts(Tail(rows))

\* _extract_text_from_table
ExtractTextFromTable(table) == Join(RowsTexts(table))

\* whether some text run of the cell's paragraphs uses a monospace family
CellHasMonospace(cell) ==
    \E i \in 1..Len(cell.content) :
        /\ cell.content[i] /= <<>>
        /\ \E j \in 1..Len(cell.content[i][1].elements) :
              /\ cell.content[i][1].elements[j].has_text_run
              /\ HasMonospace(cell.content[i][1].elements[j].textStyle.fontFamily)

\* the table test without the tests of one row and one column
IsCodeBlockTable_AnyShape(table) ==
    /\ table /= <<>>
    /\ table[1] /= <<>>
    /\ HasGrayBg(table[1][1])
    /\ CellHasMonospace(table[1][1])

\* _is_code_block_table
IsCodeBlockTable(table) ==
    /\ Len(table) = 1
    /\ Len(table[1]) = 1
    /\ HasGrayBg(table[1][1])
    /\ CellHasMonospace(table[1][1])

\* the text runs of a paragraph as the extractor keeps them: the marker cut
\* from the first element of a code paragraph, empty texts dropped
ParagraphTextParts(paragraph, is_code_paragraph) ==
    LET elements == paragraph.elements
        textOf(i) ==
            IF ~elements[i].has_text_run \/ elements[i].content = <<>> THEN <<>>
            ELSE IF i = 1 /\ is_code_paragraph /\ elements[i].content[1] = CodeMarker
                 THEN Tail(elements[i].content)
                 ELSE elements[i].content
        parts[i \in 0..Len(elements)] ==
            IF i = 0 THEN <<>>
            ELSE IF textOf(i) = <<>> THEN parts[i - 1] ELSE Append(parts[i - 1], textOf(i))
    IN  parts[Len(elements)]

\* named_style.startswith("HEADING_"), for the style names of the model
IsHeadingName(named_style) ==
    named_style \in {"HEADING_0", "HEADING_1", "HEADING_2", "HEADING_3", "HEADING_4",
                     "HEADING_5", "HEADING_6", "HEADING_X"}

\* named_style.replace("HEADING_", "") of such a name
HeadingSuffix(named_style) ==
    IF named_style = "HEADING_X" THEN <<"X">>
    ELSE <<Digits[(CHOOSE n \in 0..6 : HeadingNames[n + 1] = named_style) + 1]>>

\* "#" * n
RECURSIVE Hashes(_)
Hashes(n) == IF n <= 0 THEN <<>> ELSE <<"#">> \o Hashes(n - 1)

\* the chunk of a paragraph with a non-empty text
ParagraphChunk(named_style, paragraph_text) ==
    IF IsHeadingName(named_style) /\ IsDigit(HeadingSuffix(named_style))
    THEN Hashes(IntOf(HeadingSuffix(named_style))) \o <<" ">> \o paragraph_text \o <<NL, NL>>
    ELSE paragraph_text \o <<NL>>

ExtractStart == [chunks |-> <<>>, in_code_block |-> FALSE]

\* the table branch of the loop over the body
ExtractTable(st, table) ==
    IF IsCodeBlockTable(table)
    THEN [st EXCEPT !.chunks = @ \o <<Fence, ExtractTextFromTable(table), Fence>>]
    ELSE [st EXCEPT !.chunks = Append(@, ExtractTextFromTable(table))]

\* the paragraph branch with no fence at a change from code to text
ExtractParagraph_NoClose(st, paragraph) ==
    LET is_code_paragraph == IsCodeBlockParagraph(paragraph)
        paragraph_text == RStripNL(Join(ParagraphTextParts(paragraph, is_code_paragraph)))
        opened == IF is_code_paragraph /\ ~st.in_code_block
                  THEN [chunks |-> Append(st.chunks, Fence), in_code_block |-> TRUE]
                  ELSE [chunks |-> st.chunks, in_code_block |-> is_code_paragraph]
    IN  IF paragraph_text /= <<>>
        THEN [opened EXCEPT !.chunks =
                 Append(@, ParagraphChunk(paragraph.namedStyleType, paragraph_text))]
        ELSE opened

\* the paragraph branch of the loop over the body
ExtractParagraph(st, paragraph) ==
    LET is_code_paragraph == IsCodeBlockParagraph(paragraph)
        paragraph_text == RStripNL(Join(ParagraphTextParts(paragraph, is_code_paragraph)))
        fenced ==
            IF is_code_paragraph /\ ~st.in_code_block
            THEN [chunks |-> Append(st.chunks, Fence), in_code_block |-> TRUE]
            ELSE IF ~is_code_paragraph /\ st.in_code_block
            THEN [chunks |-> Append(st.chunks, Fence), in_code_block |-> FALSE]
            ELSE st
    IN  IF paragraph_text /= <<>>
        THEN [fenced EXCEPT !.chunks =
                 Append(@, ParagraphChunk(paragraph.namedStyleType, paragraph_text))]
        ELSE fenced

\* one iteration of the loop over the body
ExtractElement(st, element) ==
    CASE element.kind = "table" -> ExtractTable(st, element.table)
      [] element.kind = "paragraph" -> ExtractParagraph(st, element.paragraph)
      [] OTHER -> st

\* after the loop: the fence of a code block still open
ExtractClose(st) ==
    IF st.in_code_block THEN [st EXCEPT !.chunks = Append(@, Fence)] ELSE st

RECURSIVE ExtractFrom(_, _)
ExtractFrom(st, body) ==
    IF body = <<>> THEN st ELSE ExtractFrom(ExtractElement(st, Head(body)), Tail(body))

\* _extract_plain_text as a function of the body
ExtractPlainText(body) == Strip(Join(ExtractClose(ExtractFrom(ExtractStart, body)).chunks))

----------------------------------------------------------------------------
(* The remote document a batch is applied to *)

PlainRun == RunStyle("", 0, 0, 0)

\* A document body as its characters from index 1 on; each carries its text
\* style and the named style of its paragraph.  A new document is one empty
\* paragraph.
DocChar(ch, style, named) == [ch |-> ch, style |-> style, named |-> named]
EmptyDocument == <<DocChar(NL, PlainRun, "NORMAL_TEXT")>>

\* the index of the newline that ends the paragraph of index k
RECURSIVE ParagraphEnd(_, _)
ParagraphEnd(cells, k) ==
    IF k >= Len(cells) \/ cells[k].ch = NL THEN k ELSE ParagraphEnd(cells, k + 1)

\* insertText: the text takes the text style of the character before the
\* index and the paragraph style of the paragraph it lands in
ApplyInsertText(cells, index, text) ==
    LET style == IF index > 1 THEN cells[index - 1].style ELSE cells[index].style
        named == cells[ParagraphEnd(cells, index)].named
    IN  SubSeq(cells, 1, index - 1)
        \o [i \in 1..Len(text) |-> DocChar(text[i], style, named)]
        \o SubSeq(cells, index, Len(cells))

\* updateParagraphStyle: every paragraph that overlaps the range takes the
\* fields of the style; only namedStyleType shows in the document tree read here
ApplyParagraphStyle(cells, startIndex, endIndex, paragraph_style) ==
    IF paragraph_style.namedStyleType = NoneV THEN cells
    ELSE [j \in 1..Len(cells) |->
            IF \E k \in startIndex..(endIndex - 1) :
                  k <= Len(cells) /\ ParagraphEnd(cells, k) = ParagraphEnd(cells, j)
            THEN [cells[j] EXCEPT !.named = paragraph_style.namedStyleType]
            ELSE cells[j]]

\* the fields a text style sets, on the style a character has
MergeTextStyle(old, text_style) ==
    CASE text_style.kind = "code" -> RunStyle("Roboto Mono", 95, 95, 95)
      [] text_style.kind = "mono" -> [old EXCEPT !.fontFamily = "Roboto Mono"]
      [] OTHER -> old

\* updateTextStyle: the characters of the range take the fields of the style
ApplyTextStyle(cells, startIndex, endIndex, text_style) ==
    [j \in 1..Len(cells) |->
        IF startIndex <= j /\ j < endIndex
        THEN [cells[j] EXCEPT !.style = MergeTextStyle(@, text_style)]
        ELSE cells[j]]

ApplyRequest(cells, r) ==
    CASE r.op = "insertText" -> ApplyInsertText(cells, r.startIndex, r.text)
      [] r.op = "updateParagraphStyle" ->
            ApplyParagraphStyle(cells, r.startIndex, r.endIndex, r.paragraphStyle)
      [] r.op = "updateTextStyle" ->
            ApplyTextStyle(cells, r.startIndex, r.endIndex, r.textStyle)
      [] OTHER -> cells

\* the batch applied in order
RECURSIVE ApplyBatch(_, _)
ApplyBatch(cells, requests) ==
    IF requests = <<>> THEN cells
    ELSE ApplyBatch(ApplyRequest(cells, Head(requests)), Tail(requests))

\* the text runs of the characters from..to: maximal runs of one text style
RECURSIVE RunsOf(_, _, _)
RunsOf(cells, from, to) ==
    IF from > to THEN <<>>
    ELSE LET last == CHOOSE k \in from..to :
                        /\ \A m \in from..k : cells[m].style = cells[from].style
                        /\ k = to \/ cells[k + 1].style /= cells[from].style
         IN  <<Element(TRUE, [i \in 1..(last - from + 1) |-> cells[from + i - 1].ch],
                       cells[from].style)>>
             \o RunsOf(cells, last + 1, to)

\* the body content of the document: its paragraphs, each with its runs
RECURSIVE DocumentBody(_, _)
DocumentBody(cells, from) ==
    IF from > Len(cells) THEN <<>>
    ELSE LET end == ParagraphEnd(cells, from)
         IN  <<BodyParagraph(Paragraph(RunsOf(cells, from, end), cells[end].named))>>
             \o DocumentBody(cells, end + 1)

----------------------------------------------------------------------------
(* md.parse: the token stream of a markup text given as its blocks *)

\* A block of markup text.  kind is heading (level, kids), paragraph (kids),
\* fence (content), bullet_list or ordered_list (items, each a list of blocks),
\* or hr.
Block(kind, level, kids, content, items) ==
    [kind |-> kind, level |-> level, kids |-> kids, content |-> content, items |-> items]
HeadingBlock(level, kids) == Block("heading", level, kids, <<>>, <<>>)
ParagraphBlock(kids) == Block("paragraph", 0, kids, <<>>, <<>>)
FenceBlock(content) == Block("fence", 0, <<>>, content, <<>>)
ListBlock(kind, items) == Block(kind, 0, <<>>, <<>>, items)
HrBlock == Block("hr", 0, <<>>, <<>>, <<>>)

Tok(type) == Token(type, <<>>, <<>>, <<>>)

RECURSIVE MdParse(_)
RECURSIVE ItemTokens(_)
ItemTokens(items) ==
    IF items = <<>> THEN <<>>
    ELSE <<Tok("list_item_open")>> \o MdParse(Head(items)) \o <<Tok("list_item_close")>>
         \o ItemTokens(Tail(items))

BlockTokens(b) ==
    CASE b.kind = "heading" ->
            <<Token("heading_open", <<"h", Digits[b.level + 1]>>, <<>>, <<>>),
              Token("inline", <<>>, <<>>, b.kids), Tok("heading_close")>>
      [] b.kind = "paragraph" ->
            <<Tok("paragraph_open"), Token("inline", <<>>, <<>>, b.kids),
              Tok("paragraph_close")>>
      [] b.kind = "fence" -> <<Token("fence", <<>>, b.content, <<>>)>>
      [] b.kind = "bullet_list" ->
            <<Tok("bullet_list_open")>> \o ItemTokens(b.items) \o <<Tok("bullet_list_close")>>
      [] b.kind = "ordered_list" ->
            <<Tok("ordered_list_open")>> \o ItemTokens(b.items) \o <<Tok("ordered_list_close")>>
      [] OTHER -> <<Tok("hr")>>

MdParse(blocks) ==
    IF blocks = <<>> THEN <<>> ELSE BlockTokens(Head(blocks)) \o MdParse(Tail(blocks))

----------------------------------------------------------------------------
(* Bounds and inputs *)

MaxTextLen == 2
\* spans passed to the builder over one run, all calls together
MaxSpans == 2
MaxOffset == 3
MaxCalls == 2
MaxStart == 2
MaxChildren == 3
MaxBlocks == 2
MaxTabs == 4
MaxBody == 3
\* service operations in one run, and the remote call of an operation that
\* may fail (0 for none; append_text issues four)
MaxOps == 2
MaxFail == 4
MaxThreads == 3
MaxStates == 2

BuilderChars == {"a", NL}
BuilderTexts == SeqsUpTo(BuilderChars, MaxTextLen)
TabIds == {NoneV, "t1"}
ParagraphStyles == {NoStyle, ParagraphStyle("HEADING_1", FALSE)}
ListTypes == {NoneV, "ordered", "bullet"}
\* spans a caller may pass: inside the text, empty (end <= start), past the text
SpanChoices ==
    {Span(s, e, TextStyle("bold", NoneV)) : s \in {0, 1}, e \in {1, MaxOffset}}
SpanLists == SeqsUpTo(SpanChoices, MaxSpans)

InlineChildren ==
    {Child("text", <<"a">>, NoneV), Child("softbreak", <<>>, NoneV),
     Child("hardbreak", <<>>, NoneV), Child("image", <<>>, NoneV),
     Child("strong_open", <<>>, NoneV), Child("strong_close", <<>>, NoneV),
     Child("em_open", <<>>, NoneV), Child("em_close", <<>>, NoneV),
     Child("link_open", <<>>, "u"), Child("link_open", <<>>, NoneV),
     Child("link_close", <<>>, NoneV),
     Child("code_inline", <<"c">>, NoneV), Child("code_inline", <<>>, NoneV)}

TextA == <<Child("text", <<"a">>, NoneV)>>
TextB == <<Child("text", <<"b">>, NoneV)>>
BoldA == <<Child("strong_open", <<>>, NoneV), Child("text", <<"a">>, NoneV),
           Child("strong_close", <<>>, NoneV)>>
TwoLines == <<Child("text", <<"a">>, NoneV), Child("softbreak", <<>>, NoneV),
              Child("text", <<"b">>, NoneV)>>
ImageOnly == <<Child("image", <<>>, NoneV)>>
EmptyCode == <<Child("code_inline", <<>>, NoneV), Child("text", <<"a">>, NoneV)>>
\* bold-open, italic-open, text, bold-close, text, italic-close
OverlapExample ==
    <<Child("strong_open", <<>>, NoneV), Child("em_open", <<>>, NoneV),
      Child("text", <<"a">>, NoneV), Child("strong_close", <<>>, NoneV),
      Child("text", <<"a">>, NoneV), Child("em_close", <<>>, NoneV)>>

\* the blocks a markup text of the model is made of
PlainBlocks ==
    {HeadingBlock(1, TextA), HeadingBlock(2, TextB), HeadingBlock(1, <<>>),
     ParagraphBlock(TextA), ParagraphBlock(BoldA), ParagraphBlock(TwoLines),
     ParagraphBlock(ImageOnly), ParagraphBlock(EmptyCode),
     FenceBlock(<<"a", NL>>), FenceBlock(<<"a", NL, NL, "b", NL>>), FenceBlock(<<>>),
     FenceBlock(<<"a", NL, NL>>)}
ListBlocks ==
    {ListBlock("bullet_list", <<<<ParagraphBlock(TextA)>>, <<ParagraphBlock(BoldA)>>>>),
     ListBlock("ordered_list", <<<<ParagraphBlock(TextA)>>>>),
     ListBlock("bullet_list",
               <<<<ParagraphBlock(TextA),
                   ListBlock("bullet_list", <<<<ParagraphBlock(TextB)>>>>)>>,
                 <<ParagraphBlock(TextA)>>>>),
     ListBlock("ordered_list",
               <<<<ParagraphBlock(TextA),
                   ListBlock("bullet_list", <<<<ParagraphBlock(TextB)>>>>)>>>>)}
BlockChoices == PlainBlocks \cup ListBlocks \cup {HrBlock}
\* the markup texts of at most n blocks
Markups(n) == SeqsUpTo(BlockChoices, n)

NodeIds == {NoneV, "A", "B", "C", "D"}
RequestedIds == {NoneV, "", "A", "B", "C", "D", "Z"}

RECURSIVE TreesOfSize(_), ForestsOfSize(_)
\* the tabs with n nodes, and the tab lists with n nodes in all
TreesOfSize(n) == {Tab(id, "Tab", c) : id \in NodeIds, c \in ForestsOfSize(n - 1)}
ForestsOfSize(n) ==
    IF n = 0 THEN {<<>>}
    ELSE UNION {{<<t>> \o f : t \in TreesOfSize(k), f \in ForestsOfSize(n - k)} : k \in 1..n}

\* the documents of at most max tabs
Docs(max) == {[title |-> "Doc", tabs |-> f] : f \in UNION {ForestsOfSize(n) : n \in 0..max}}

CodeRun == RunStyle("Roboto Mono", 95, 95, 95)
TextRun(content, style) == Element(TRUE, content, style)

ParagraphChoices ==
    {Paragraph(<<TextRun(<<"x", NL>>, PlainRun)>>, "NORMAL_TEXT"),
     Paragraph(<<TextRun(<<"x", NL>>, PlainRun)>>, "HEADING_1"),
     Paragraph(<<TextRun(<<"x", NL>>, PlainRun)>>, "HEADING_X"),
     Paragraph(<<TextRun(<<"x">>, CodeRun), TextRun(<<NL>>, PlainRun)>>, "NORMAL_TEXT"),
     Paragraph(<<TextRun(<<CodeMarker, "x", NL>>, PlainRun)>>, "NORMAL_TEXT"),
     Paragraph(<<TextRun(<<CodeMarker>>, PlainRun), TextRun(<<NL>>, PlainRun)>>, ""),
     Paragraph(<<TextRun(<<NL>>, PlainRun)>>, "NORMAL_TEXT"),
     Paragraph(<<TextRun(<<NL>>, CodeRun)>>, "NORMAL_TEXT"),
     Paragraph(<<TextRun(<<" ", NL>>, PlainRun)>>, "NORMAL_TEXT"),
     Paragraph(<<TextRun(<<"x", NL>>, RunStyle("Roboto Mono", 0, 0, 0))>>, "NORMAL_TEXT"),
     Paragraph(<<TextRun(<<"x", NL>>, RunStyle("Courier New", 95, 95, 90))>>, ""),
     Paragraph(<<Element(FALSE, <<>>, PlainRun), TextRun(<<"x", NL>>, CodeRun)>>, ""),
     Paragraph(<<TextRun(<<CodeMarker, CodeMarker, "x", NL>>, PlainRun)>>, "NORMAL_TEXT"),
     Paragraph(<<TextRun(<<"x">>, PlainRun), TextRun(<<CodeMarker, NL>>, PlainRun)>>,
               "NORMAL_TEXT")}

CellParagraph(style) == <<Paragraph(<<TextRun(<<"x", NL>>, style)>>, "NORMAL_TEXT")>>
\* a cell's paragraph of one text run
CellText(content, style) == <<Paragraph(<<TextRun(content, style)>>, "NORMAL_TEXT")>>
\* a 1x1 table with a light background and a monospace run of no text
EmptyCodeTable == <<<<Cell(95, 95, 95, <<CellText(<<>>, CodeRun)>>)>>>>
\* a 2x2 table of light cells with monospace runs a, b / c, d
TwoByTwo ==
    <<<<Cell(95, 95, 95, <<CellText(<<"a">>, CodeRun)>>),
        Cell(95, 95, 95, <<CellText(<<"b">>, CodeRun)>>)>>,
      <<Cell(95, 95, 95, <<CellText(<<"c">>, CodeRun)>>),
        Cell(95, 95, 95, <<CellText(<<"d", NL>>, CodeRun)>>)>>>>
TableChoices ==
    {<<<<Cell(95, 95, 95, <<CellParagraph(CodeRun)>>)>>>>,
     <<<<Cell(0, 0, 0, <<CellParagraph(PlainRun)>>)>>>>,
     <<<<Cell(95, 95, 95, <<CellParagraph(CodeRun)>>),
         Cell(95, 95, 95, <<<<>>, CellParagraph(PlainRun)>>)>>>>,
     <<<<Cell(95, 90, 95, <<CellParagraph(CodeRun)>>)>>>>,
     <<<<Cell(95, 95, 95, <<CellParagraph(PlainRun)>>)>>>>,
     EmptyCodeTable,
     TwoByTwo}

ElementChoices ==
    {BodyParagraph(p) : p \in ParagraphChoices} \cup {BodyTable(t) : t \in TableChoices}
    \cup {BodyOther}

\* heading A, plain "body", code "x=1", plain "end"
ExampleBody ==
    <<BodyParagraph(Paragraph(<<TextRun(<<"A", NL>>, PlainRun)>>, "HEADING_1")),
      BodyParagraph(Paragraph(<<TextRun(<<"b", "o", "d", "y", NL>>, PlainRun)>>, "NORMAL_TEXT")),
      BodyParagraph(Paragraph(<<TextRun(<<"x", "=", "1">>, CodeRun),
                                TextRun(<<NL>>, PlainRun)>>, "NORMAL_TEXT")),
      BodyParagraph(Paragraph(<<TextRun(<<"e", "n", "d", NL>>, PlainRun)>>, "NORMAL_TEXT"))>>
\* "# A\n\nbody\n" + fence + "x=1\n" + fence + "end"
ExampleMarkup ==
    <<"#", " ", "A", NL, NL, "b", "o", "d", "y", NL, Backtick, Backtick, Backtick, NL, "x", "=", "1", NL,
      Backtick, Backtick, Backtick, NL, "e", "n", "d">>

\* the bodies of at most n elements, and the example
Bodies(n) == SeqsUpTo(ElementChoices, n) \cup {ExampleBody}

\* the documents the service is asked about: no tabs, one tab, a tab with a
\* child tab and a second top-level tab
ServiceDocs ==
    {[title |-> "Doc", tabs |-> <<>>],
     [title |-> "Doc", tabs |-> <<Tab("A", "Tab", <<>>)>>],
     [title |-> "Doc", tabs |-> <<Tab("A", "Tab", <<Tab("B", "Tab", <<>>)>>),
                                  Tab("C", "Tab", <<>>)>>]}
ServiceTabIds == {NoneV, "", "A", "B", "Z"}
ServiceContents == {<<>>, <<"x">>, <<"x", NL>>, <<"x", NL, NL>>}
ServiceTexts == {<<>>, <<"a">>}
CreatedTabs == {<<>>, <<Tab("A", "Tab 1", <<>>)>>}
\* the arguments of the concurrent append_text calls
AppendTexts == {<<>>, <<"a">>, <<"b">>}
AppendTabIds == {NoneV, "B"}
\* HttpError.reason, the message of the remote service
Reasons == {<<"Rate limit exceeded">>, <<"File not found">>}

----------------------------------------------------------------------------
(* The states of the parts that a specification leaves alone *)

NotReturned == [returned |-> FALSE, text |-> <<>>, spans |-> <<>>]
Extraction(state, text) == [state |-> state, text |-> text]

TabOp(op, requested, metadata, result) ==
    [op |-> op, requested |-> requested, metadata |-> metadata, result |-> result]
NoTabOp == TabOp("none", NoneV, <<>>, Resolved(<<>>, NoneV))

BuilderIdle ==
    /\ start_index = 1
    /\ builder = NewBuilder(1, NoneV)
    /\ lastCall = Call("init", <<>>, NoStyle, <<>>, NoneV, NewBuilder(1, NoneV))

InlineIdle ==
    /\ children = <<>>
    /\ pos = 0
    /\ inl = InlineStart
    /\ parsed = NotReturned

RenderIdle ==
    /\ markdown = <<>>
    /\ tokens = <<>>
    /\ ti = 0
    /\ rmode = "idle"
    /\ rlist = NoneV

TabIdle ==
    /\ doc = [title |-> "Doc", tabs |-> <<>>]
    /\ tabOp = NoTabOp

ExtractIdle ==
    /\ document = <<>>
    /\ ei = 0
    /\ ext = ExtractStart
    /\ extracted = Extraction("waiting", <<>>)

\* the last service operation: its name and arguments, the remote calls it
\* issued, what it ended with, and how many operations ran so far
Svc(op, tab_id, text, calls, out, n) ==
    [op |-> op, tab_id |-> tab_id, text |-> text, calls |-> calls, out |-> out, n |-> n]
NoSvc == Svc("none", NoneV, <<>>, <<>>, NoOutcome, 0)

ServiceIdle ==
    /\ remote = Remote([title |-> "Doc", tabs |-> <<>>], <<>>)
    /\ svc = NoSvc

\* the threads of the pool that run_in_threadpool hands the calls to
Threads == 1..MaxThreads

\* the states flow.authorization_url can generate
States == 1..MaxStates

\* a call on the auth manager in its thread: the method, where the thread
\* stands in it, the state (generated or passed in), whether the code passed
\* in is one the token endpoint accepts, the local flow (none, or the flow
\* of the state), and what the call returned or raised
AuthCall(op, pc, state, code, flow, out) ==
    [op |-> op, pc |-> pc, state |-> state, code |-> code, flow |-> flow, out |-> out]
NoAuthCall == AuthCall("none", "idle", <<>>, FALSE, <<>>, "none")

\* GoogleAuthManager.__init__, and no call under way
AuthIdle ==
    /\ pending_flows = {}
    /\ lock = {}
    /\ token_file = <<>>
    /\ issued = {}
    /\ auth = [t \in Threads |-> NoAuthCall]

\* an append_text call in its thread: where the thread stands in it, its
\* arguments, which remote call fails and why, the remote calls issued so
\* far, and the value returned or the error raised by the last step
AppendCall(pc, text, tab_id, fail, reason, calls, out) ==
    [pc |-> pc, text |-> text, tab_id |-> tab_id, fail |-> fail, reason |-> reason,
     calls |-> calls, out |-> out]
NoAppendCall == AppendCall("idle", <<>>, NoneV, 0, <<>>, <<>>, NoOutcome)

\* the two threads of the pool that run append_text
Appenders == {1, 2}

\* the content of the document before the calls, and the calls
AppendIdle ==
    appends = [previous |-> <<>>, call |-> [t \in Appenders |-> NoAppendCall]]

----------------------------------------------------------------------------
(* The builder driven by arbitrary calls *)

InitB ==
    /\ start_index \in 1..MaxStart
    /\ \E prepend_newline \in BOOLEAN, tab_id \in TabIds :
          builder = InitBuilder(start_index, prepend_newline, tab_id)
    /\ lastCall = Call("init", <<>>, NoStyle, <<>>, NoneV, NewBuilder(start_index, NoneV))
    /\ InlineIdle
    /\ RenderIdle
    /\ TabIdle
    /\ ExtractIdle
    /\ ServiceIdle
    /\ AuthIdle
    /\ AppendIdle

InsertText ==
    /\ lastCall.n < MaxCalls
    /\ \E text \in BuilderTexts :
          /\ builder' = InsertTextOp(builder, text).b
          /\ lastCall' = [Call("insert_text", text, NoStyle, <<>>, NoneV, builder)
                            EXCEPT !.n = lastCall.n + 1, !.nspans = lastCall.nspans]
    /\ UNCHANGED <<start_index, inlineVars, renderVars, tabVars, extractVars, serviceVars, authVars, appendVars>>

AddParagraph ==
    /\ lastCall.n < MaxCalls
    /\ \E text \in BuilderTexts, paragraph_style \in ParagraphStyles,
          spans \in SpanLists, list_type \in ListTypes :
          /\ lastCall.nspans + Len(spans) <= MaxSpans
          /\ builder' = AddParagraphOp(builder, text, paragraph_style, spans, list_type)
          /\ lastCall' = [Call("add_paragraph", text, paragraph_style, spans, list_type, builder)
                            EXCEPT !.n = lastCall.n + 1,
                                   !.nspans = lastCall.nspans + Len(spans)]
    /\ UNCHANGED <<start_index, inlineVars, renderVars, tabVars, extractVars, serviceVars, authVars, appendVars>>

NextB == InsertText \/ AddParagraph

SpecBuilder == InitB /\ [][NextB]_vars

----------------------------------------------------------------------------
(* _parse_inline, child by child *)

InitI ==
    /\ children \in SeqsUpTo(InlineChildren, MaxChildren) \cup {OverlapExample}
    /\ pos = 0
    /\ inl = InlineStart
    /\ parsed = NotReturned
    /\ BuilderIdle
    /\ RenderIdle
    /\ TabIdle
    /\ ExtractIdle
    /\ ServiceIdle
    /\ AuthIdle
    /\ AppendIdle

\* the type of the child the loop is at, NoneV past the end or after the return
NextType ==
    IF ~parsed.returned /\ pos < Len(children) THEN children[pos + 1].type ELSE NoneV

ParseStep ==
    /\ inl' = ParseChild(inl, children[pos + 1])
    /\ pos' = pos + 1
    /\ UNCHANGED <<children, parsed, builderVars, renderVars, tabVars, extractVars,
                   serviceVars, authVars, appendVars>>

OnText ==
    /\ NextType = "text"
    /\ ParseStep

OnBreak ==
    /\ NextType \in {"softbreak", "hardbreak"}
    /\ ParseStep

OnOpen ==
    /\ NextType \in {"strong_open", "em_open", "link_open"}
    /\ ParseStep

OnClose ==
    /\ NextType \in {"strong_close", "em_close", "link_close"}
    /\ ParseStep

OnCodeInline ==
    /\ NextType = "code_inline"
    /\ ParseStep

OnOtherChild ==
    /\ NextType \notin {NoneV, "text", "softbreak", "hardbreak", "strong_open", "em_open",
                        "link_open", "strong_close", "em_close", "link_close",
                        "code_inline"}
    /\ ParseStep

ParseReturn ==
    /\ ~parsed.returned
    /\ pos = Len(children)
    /\ parsed' = [returned |-> TRUE, text |-> InlineResult(inl).text,
                  spans |-> InlineResult(inl).spans]
    /\ UNCHANGED <<children, pos, inl, builderVars, renderVars, tabVars, extractVars,
                   serviceVars, authVars, appendVars>>

NextI == OnText \/ OnBreak \/ OnOpen \/ OnClose \/ OnCodeInline \/ OnOtherChild \/ ParseReturn

SpecInline == InitI /\ [][NextI]_vars

----------------------------------------------------------------------------
(* The tab walker on a fetched document *)

InitT ==
    /\ doc \in Docs(MaxTabs)
    /\ tabOp = NoTabOp
    /\ BuilderIdle
    /\ InlineIdle
    /\ RenderIdle
    /\ ExtractIdle
    /\ ServiceIdle
    /\ AuthIdle
    /\ AppendIdle

\* list_tabs, after the document is fetched
ListTabsCall ==
    /\ tabOp' = TabOp("list_tabs", NoneV, ListTabMetadata(doc), Resolved(<<>>, NoneV))
    /\ UNCHANGED <<doc, builderVars, inlineVars, renderVars, extractVars, serviceVars, authVars, appendVars>>

\* _resolve_tab, as fetch_document and replace_document call it
ResolveTabCall ==
    /\ \E tab_id \in RequestedIds :
          tabOp' = TabOp("resolve_tab", tab_id, <<>>, ResolveTab(doc, tab_id))
    /\ UNCHANGED <<doc, builderVars, inlineVars, renderVars, extractVars, serviceVars, authVars, appendVars>>

NextT == ListTabsCall \/ ResolveTabCall

SpecTabs == InitT /\ [][NextT]_vars

----------------------------------------------------------------------------
(* _extract_plain_text, body element by body element *)

InitE ==
    /\ document \in Bodies(MaxBody)
    /\ ei = 0
    /\ ext = ExtractStart
    /\ extracted = Extraction("running", <<>>)
    /\ BuilderIdle
    /\ InlineIdle
    /\ RenderIdle
    /\ TabIdle
    /\ ServiceIdle
    /\ AuthIdle
    /\ AppendIdle

\* the kind of the body element the loop is at, NoneV when the loop does not run
ElementKind ==
    IF extracted.state = "running" /\ ei < Len(document) THEN document[ei + 1].kind
    ELSE NoneV

ExtractStep ==
    /\ ext' = ExtractElement(ext, document[ei + 1])
    /\ ei' = ei + 1
    /\ UNCHANGED <<document, extracted, builderVars, inlineVars, renderVars, tabVars,
                   serviceVars, authVars, appendVars>>

OnTable ==
    /\ ElementKind = "table"
    /\ ExtractStep

OnParagraph ==
    /\ ElementKind = "paragraph"
    /\ ExtractStep

OnOtherElement ==
    /\ ElementKind = "other"
    /\ ExtractStep

ExtractReturn ==
    /\ extracted.state = "running"
    /\ ei = Len(document)
    /\ ext' = ExtractClose(ext)
    /\ extracted' = Extraction("returned", Strip(Join(ext'.chunks)))
    /\ UNCHANGED <<document, ei, builderVars, inlineVars, renderVars, tabVars, serviceVars, authVars, appendVars>>

NextE == OnTable \/ OnParagraph \/ OnOtherElement \/ ExtractReturn

SpecExtract == InitE /\ [][NextE]_vars

----------------------------------------------------------------------------
(* build_markdown_requests, token by token, then the batch applied to an    *)
(* empty document and the document read back by _extract_plain_text         *)

InitR ==
    /\ markdown \in Markups(MaxBlocks)
    /\ tokens = MdParse(markdown)
    /\ ti = 0
    /\ rlist = NoneV
    /\ start_index \in 1..MaxStart
    /\ \E prepend_newline \in BOOLEAN, tab_id \in TabIds, empty_text \in BOOLEAN :
          \* "" returns at once with no builder made; a text of blank lines
          \* has no tokens either but goes through the loop
          /\ empty_text => markdown = <<>>
          /\ rmode = IF empty_text THEN "done" ELSE "main"
          /\ builder = IF empty_text THEN NewBuilder(start_index, tab_id)
                       ELSE InitBuilder(start_index, prepend_newline, tab_id)
    /\ lastCall = Call("init", <<>>, NoStyle, <<>>, NoneV, NewBuilder(start_index, NoneV))
    /\ InlineIdle
    /\ TabIdle
    /\ ExtractIdle
    /\ ServiceIdle
    /\ AuthIdle
    /\ AppendIdle

\* the type of the token the given loop is at, NoneV when that loop does not
\* run or is past the end
TokenType(mode) ==
    IF rmode = mode /\ ti < Len(tokens) THEN tokens[ti + 1].type ELSE NoneV

\* builder.add_paragraph(...) as the renderer calls it
RenderParagraphCall(text, paragraph_style, spans, list_type) ==
    /\ builder' = AddParagraphOp(builder, text, paragraph_style, spans, list_type)
    /\ lastCall' = [Call("add_paragraph", text, paragraph_style, spans, list_type, builder)
                      EXCEPT !.n = lastCall.n + 1]

RenderHeading ==
    /\ TokenType("main") = "heading_open"
    /\ LET level == HeadingLevel(tokens[ti + 1].tag)
           inline == ParseInline(tokens[ti + 2].children)
       IN  RenderParagraphCall(inline.text, HeadingStyle(level), inline.spans, NoneV)
    /\ ti' = ti + 3
    /\ UNCHANGED <<markdown, tokens, rmode, rlist, start_index, inlineVars, tabVars,
                   extractVars, serviceVars, authVars, appendVars>>

RenderParagraph ==
    /\ TokenType("main") = "paragraph_open"
    /\ LET inline == ParseInline(tokens[ti + 2].children)
       IN  IF Strip(inline.text) /= <<>>
           THEN RenderParagraphCall(inline.text, NoStyle, inline.spans, NoneV)
           ELSE UNCHANGED <<builder, lastCall>>
    /\ ti' = ti + 3
    /\ UNCHANGED <<markdown, tokens, rmode, rlist, start_index, inlineVars, tabVars,
                   extractVars, serviceVars, authVars, appendVars>>

RenderFence ==
    /\ TokenType("main") = "fence"
    /\ LET code_text == RStripNL(tokens[ti + 1].content)
       IN  IF code_text /= <<>>
           THEN RenderParagraphCall(code_text, CodeParagraphStyle, <<CodeSpan(code_text)>>,
                                    NoneV)
           ELSE UNCHANGED <<builder, lastCall>>
    /\ ti' = ti + 1
    /\ UNCHANGED <<markdown, tokens, rmode, rlist, start_index, inlineVars, tabVars,
                   extractVars, serviceVars, authVars, appendVars>>

\* the call of _render_list, up to its loop
RenderListOpen ==
    /\ TokenType("main") \in {"bullet_list_open", "ordered_list_open"}
    /\ rlist' = IF TokenType("main") = "bullet_list_open" THEN "bullet" ELSE "ordered"
    /\ rmode' = "list"
    /\ ti' = ti + 1
    /\ UNCHANGED <<markdown, tokens, builderVars, inlineVars, tabVars, extractVars,
                   serviceVars, authVars, appendVars>>

RenderSkip ==
    /\ TokenType("main") \notin {NoneV, "heading_open", "paragraph_open", "fence",
                                 "bullet_list_open", "ordered_list_open"}
    /\ ti' = ti + 1
    /\ UNCHANGED <<markdown, tokens, rmode, rlist, builderVars, inlineVars, tabVars,
                   extractVars, serviceVars, authVars, appendVars>>

\* _render_list returns: at its close token, or past the last token
ListReturn ==
    /\ rmode = "list"
    /\ ti >= Len(tokens) \/ tokens[ti + 1].type = CloseType(rlist)
    /\ ti' = IF ti >= Len(tokens) THEN ti ELSE ti + 1
    /\ rmode' = "main"
    /\ rlist' = NoneV
    /\ UNCHANGED <<markdown, tokens, builderVars, inlineVars, tabVars, extractVars,
                   serviceVars, authVars, appendVars>>

ListItemOpen ==
    /\ TokenType("list") = "list_item_open"
    /\ TokenType("list") /= CloseType(rlist)
    /\ rmode' = "item"
    /\ ti' = ti + 1
    /\ UNCHANGED <<markdown, tokens, rlist, builderVars, inlineVars, tabVars, extractVars,
                   serviceVars, authVars, appendVars>>

ListSkip ==
    /\ TokenType("list") \notin {NoneV, "list_item_open", CloseType(rlist)}
    /\ ti' = ti + 1
    /\ UNCHANGED <<markdown, tokens, rmode, rlist, builderVars, inlineVars, tabVars,
                   extractVars, serviceVars, authVars, appendVars>>

\* the inner loop at a paragraph of the item
ItemParagraph ==
    /\ TokenType("item") = "paragraph_open"
    /\ LET inline == ParseInline(tokens[ti + 2].children)
       IN  RenderParagraphCall(inline.text, NoStyle, inline.spans, rlist)
    /\ ti' = ti + 3
    /\ UNCHANGED <<markdown, tokens, rmode, rlist, start_index, inlineVars, tabVars,
                   extractVars, serviceVars, authVars, appendVars>>

ItemSkip ==
    /\ TokenType("item") \notin {NoneV, "paragraph_open", "list_item_close"}
    /\ ti' = ti + 1
    /\ UNCHANGED <<markdown, tokens, rmode, rlist, builderVars, inlineVars, tabVars,
                   extractVars, serviceVars, authVars, appendVars>>

\* the inner loop ends, at list_item_close or past the last token, and the
\* token after is the next of the outer loop
ItemClose ==
    /\ rmode = "item"
    /\ TokenType("item") \in {NoneV, "list_item_close"}
    /\ ti' = ti + 1
    /\ rmode' = "list"
    /\ UNCHANGED <<markdown, tokens, rlist, builderVars, inlineVars, tabVars, extractVars,
                   serviceVars, authVars, appendVars>>

\* return builder.requests, builder.cursor
RenderReturn ==
    /\ rmode = "main"
    /\ ti >= Len(tokens)
    /\ rmode' = "done"
    /\ UNCHANGED <<markdown, tokens, ti, rlist, builderVars, inlineVars, tabVars,
                   extractVars, serviceVars, authVars, appendVars>>

\* the batch built for index 1 applied to an empty document, whose body the
\* extractor then reads
ApplyToEmptyDocument ==
    /\ rmode = "done"
    /\ start_index = 1
    /\ extracted.state = "waiting"
    /\ document' = DocumentBody(ApplyBatch(EmptyDocument, builder.requests), 1)
    /\ extracted' = Extraction("running", <<>>)
    /\ UNCHANGED <<ei, ext, builderVars, inlineVars, renderVars, tabVars, serviceVars, authVars, appendVars>>

NextR ==
    \/ RenderHeading
    \/ RenderParagraph
    \/ RenderFence
    \/ RenderListOpen
    \/ RenderSkip
    \/ ListReturn
    \/ ListItemOpen
    \/ ListSkip
    \/ ItemParagraph
    \/ ItemSkip
    \/ ItemClose
    \/ RenderReturn
    \/ ApplyToEmptyDocument
    \/ OnParagraph
    \/ ExtractReturn

SpecRender == InitR /\ [][NextR]_vars

----------------------------------------------------------------------------
(* The service operations, each with any one of its remote calls failing *)

InitS ==
    /\ remote \in {Remote(d, c) : d \in ServiceDocs, c \in ServiceContents}
    /\ svc = NoSvc
    /\ BuilderIdle
    /\ InlineIdle
    /\ RenderIdle
    /\ TabIdle
    /\ ExtractIdle
    /\ AuthIdle
    /\ AppendIdle

\* the operation has run to its end: the remote service and the record of it
Ran(op, tab_id, text, run) ==
    /\ remote' = run.remote
    /\ svc' = Svc(op, tab_id, text, run.calls, run.out, svc.n + 1)
    /\ UNCHANGED <<builderVars, inlineVars, renderVars, tabVars, extractVars, authVars,
                   appendVars>>

StartRun == Run(remote, <<>>, NoOutcome)

CreateDocumentCall ==
    /\ svc.n < MaxOps
    /\ \E initial_text \in ServiceTexts, created \in CreatedTabs,
          fail \in 0..MaxFail, reason \in Reasons :
          Ran("create_document", NoneV, initial_text,
              CreateDocument(StartRun, "Doc", initial_text, created, fail, reason))

AppendTextCall ==
    /\ svc.n < MaxOps
    /\ \E text \in ServiceTexts, tab_id \in ServiceTabIds,
          fail \in 0..MaxFail, reason \in Reasons :
          Ran("append_text", tab_id, text, AppendText(StartRun, text, tab_id, fail, reason))

ReplaceDocumentCall ==
    /\ svc.n < MaxOps
    /\ \E text \in ServiceTexts, tab_id \in ServiceTabIds,
          fail \in 0..MaxFail, reason \in Reasons :
          Ran("replace_document", tab_id, text,
              ReplaceDocument(StartRun, text, tab_id, fail, reason))

FetchDocumentCall ==
    /\ svc.n < MaxOps
    /\ \E tab_id \in ServiceTabIds, fail \in 0..MaxFail, reason \in Reasons :
          Ran("fetch_document", tab_id, <<>>, FetchDocument(StartRun, tab_id, fail, reason))

ListTabsOperation ==
    /\ svc.n < MaxOps
    /\ \E fail \in 0..MaxFail, reason \in Reasons :
          Ran("list_tabs", NoneV, <<>>, ListTabs(StartRun, fail, reason))

NextS ==
    \/ CreateDocumentCall
    \/ AppendTextCall
    \/ ReplaceDocumentCall
    \/ FetchDocumentCall
    \/ ListTabsOperation

SpecService == InitS /\ [][NextS]_vars

----------------------------------------------------------------------------
(* The OAuth flows of GoogleAuthManager, called from the threads of the pool *)

\* self._pending_flows.get(state): the flow of the state stays pending
PopFlow_Get(flows, state) ==
    [flow |-> IF state \in flows THEN <<state>> ELSE <<>>, flows |-> flows]

\* self._pending_flows.pop(state, None): the flow popped, none when the
\* state has no pending flow, and the dict after the pop
PopFlow(flows, state) ==
    [flow |-> IF state \in flows THEN <<state>> ELSE <<>>, flows |-> flows \ {state}]

InitA ==
    /\ AuthIdle
    /\ BuilderIdle
    /\ InlineIdle
    /\ RenderIdle
    /\ TabIdle
    /\ ExtractIdle
    /\ ServiceIdle
    /\ AppendIdle

\* the step of thread t leaves it at the call given
AuthStep(t, call) ==
    /\ auth' = [auth EXCEPT ![t] = call]
    /\ UNCHANGED <<builderVars, inlineVars, renderVars, tabVars, extractVars, serviceVars,
                   appendVars>>

\* start_authorization up to the lock: ensure_client_file raises when the
\* client file is missing; otherwise the flow is made and authorization_url
\* generates its state, one it has not generated before
StartAuthorization ==
    \E t \in Threads, client_file \in BOOLEAN :
        /\ auth[t].pc = "idle"
        /\ IF ~client_file
           THEN /\ AuthStep(t, AuthCall("start_authorization", "returned", <<>>, FALSE,
                                        <<>>, "CredentialsFileMissing"))
                /\ UNCHANGED issued
           ELSE \E state \in States \ issued :
                    /\ issued' = issued \cup {state}
                    /\ AuthStep(t, AuthCall("start_authorization", "acquire", <<state>>,
                                            FALSE, <<state>>, "none"))
        /\ UNCHANGED <<pending_flows, lock, token_file>>

\* auth_callback hands finish_authorization(state, code) to a thread
FinishAuthorization ==
    \E t \in Threads, state \in States, code \in BOOLEAN :
        /\ auth[t].pc = "idle"
        /\ AuthStep(t, AuthCall("finish_authorization", "acquire", <<state>>, code, <<>>,
                                "none"))
        /\ UNCHANGED <<pending_flows, lock, token_file, issued>>

\* with self._lock: the thread waits until no thread holds the lock
Acquire ==
    \E t \in Threads :
        /\ auth[t].pc = "acquire"
        /\ lock = {}
        /\ lock' = {t}
        /\ AuthStep(t, [auth[t] EXCEPT !.pc = "locked"])
        /\ UNCHANGED <<pending_flows, token_file, issued>>

\* start_authorization under the lock: self._pending_flows[state] = flow
StoreFlow ==
    \E t \in Threads :
        /\ auth[t].pc = "locked"
        /\ auth[t].op = "start_authorization"
        /\ pending_flows' = pending_flows \cup {auth[t].state[1]}
        /\ AuthStep(t, [auth[t] EXCEPT !.pc = "release"])
        /\ UNCHANGED <<lock, token_file, issued>>

\* finish_authorization under the lock: flow = self._pending_flows.pop(state, None)
PopPendingFlow ==
    \E t \in Threads :
        /\ auth[t].pc = "locked"
        /\ auth[t].op = "finish_authorization"
        /\ LET popped == PopFlow(pending_flows, auth[t].state[1])
           IN  /\ pending_flows' = popped.flows
               /\ AuthStep(t, [auth[t] EXCEPT !.pc = "release", !.flow = popped.flow])
        /\ UNCHANGED <<lock, token_file, issued>>

\* the end of the with block
Release ==
    \E t \in Threads :
        /\ auth[t].pc = "release"
        /\ lock' = lock \ {t}
        /\ AuthStep(t, [auth[t] EXCEPT !.pc = "unlocked"])
        /\ UNCHANGED <<pending_flows, token_file, issued>>

\* start_authorization returns (auth_url, state)
StartReturn ==
    \E t \in Threads :
        /\ auth[t].pc = "unlocked"
        /\ auth[t].op = "start_authorization"
        /\ AuthStep(t, [auth[t] EXCEPT !.pc = "returned", !.out = "state"])
        /\ UNCHANGED <<pending_flows, lock, token_file, issued>>

\* finish_authorization after the lock: it raises when there is no flow;
\* otherwise fetch_token raises when the token endpoint rejects the code, and
\* else the credentials of the flow are persisted and returned
FinishReturn ==
    \E t \in Threads :
        /\ auth[t].pc = "unlocked"
        /\ auth[t].op = "finish_authorization"
        /\ IF auth[t].flow = <<>>
           THEN /\ AuthStep(t, [auth[t] EXCEPT !.pc = "returned",
                                               !.out = "AuthorizationFlowNotStarted"])
                /\ UNCHANGED token_file
           ELSE IF ~auth[t].code
           THEN /\ AuthStep(t, [auth[t] EXCEPT !.pc = "returned", !.out = "OAuth2Error"])
                /\ UNCHANGED token_file
           ELSE /\ token_file' = Append(token_file,
                                        [state |-> auth[t].flow[1], thread |-> t])
                /\ AuthStep(t, [auth[t] EXCEPT !.pc = "returned", !.out = "Credentials"])
        /\ UNCHANGED <<pending_flows, lock, issued>>

NextA ==
    \/ StartAuthorization
    \/ FinishAuthorization
    \/ Acquire
    \/ StoreFlow
    \/ PopPendingFlow
    \/ Release
    \/ StartReturn
    \/ FinishReturn

SpecAuth == InitA /\ [][NextA]_vars

----------------------------------------------------------------------------
(* append_text called from two threads of the pool on one document.  A     *)
(* thread takes a step at each remote call that reads or writes the        *)
(* content; documents.get, which reads the tabs that no append_text        *)
(* changes, is taken together with the call that follows it.               *)

InitP ==
    /\ remote \in {Remote(d, c) : d \in ServiceDocs, c \in ServiceContents}
    /\ svc = NoSvc
    /\ appends = [previous |-> remote.content, call |-> [t \in Appenders |-> NoAppendCall]]
    /\ BuilderIdle
    /\ InlineIdle
    /\ RenderIdle
    /\ TabIdle
    /\ ExtractIdle
    /\ AuthIdle

\* the step of thread t leaves it at the call given
AppendStep(t, call) ==
    /\ appends' = [appends EXCEPT !.call[t] = call]
    /\ UNCHANGED <<svc, builderVars, inlineVars, renderVars, tabVars, extractVars, authVars>>

\* append_document hands append_text(document_id, text, tab_id) to a thread
AppendDocument ==
    \E t \in Appenders, text \in AppendTexts, tab_id \in AppendTabIds,
       fail \in 0..MaxFail, reason \in Reasons :
        /\ appends.call[t].pc = "idle"
        /\ AppendStep(t, AppendCall("called", text, tab_id, fail, reason, <<>>, NoOutcome))
        /\ UNCHANGED remote

\* append_text, step 1: current_doc = self.fetch_document(document_id, tab_id)
FetchCurrent ==
    \E t \in Appenders :
        LET call == appends.call[t]
            current_doc == ExceptHttpError(
                               FetchDocument(Run(remote, <<>>, NoOutcome), call.tab_id,
                                             call.fail, call.reason))
        IN  /\ call.pc = "called"
            /\ remote' = current_doc.remote
            /\ AppendStep(t, [call EXCEPT
                                !.pc = IF IsRaised(current_doc.out) THEN "returned"
                                       ELSE "fetched",
                                !.calls = current_doc.calls,
                                !.out = current_doc.out])

\* append_text, steps 2 and 3: the combined content of what the thread read
\* and its text, and self.replace_document(document_id, combined_content, tab_id)
ReplaceWithCombined ==
    \E t \in Appenders :
        LET call == appends.call[t]
            replaced == ExceptHttpError(
                            ReplaceDocument(Run(remote, call.calls, NoOutcome),
                                            CombinedContent(call.out.content, call.text),
                                            call.tab_id, call.fail, call.reason))
        IN  /\ call.pc = "fetched"
            /\ remote' = replaced.remote
            /\ AppendStep(t, [call EXCEPT !.pc = "returned",
                                          !.calls = replaced.calls,
                                          !.out = replaced.out])

NextP ==
    \/ AppendDocument
    \/ FetchCurrent
    \/ ReplaceWithCombined

SpecAppend == InitP /\ [][NextP]_vars

----------------------------------------------------------------------------
(* Claims about the builder *)

RECURSIVE InsertedLength(_)
\* the sum of len(text) over the insertText requests of a batch
InsertedLength(requests) ==
    IF requests = <<>> THEN 0
    ELSE (IF Head(requests).op = "insertText" THEN Len(Head(requests).text) ELSE 0)
         + InsertedLength(Tail(requests))

RECURSIVE TrailingNewlines(_)
TrailingNewlines(text) ==
    IF EndsWithNL(text) THEN 1 + TrailingNewlines(SubSeq(text, 1, Len(text) - 1)) ELSE 0

\* the requests the last call appended
CallRequests == SubSeq(builder.requests, lastCall.nreq + 1, Len(builder.requests))
ParagraphAdded == lastCall.op = "add_paragraph" /\ lastCall.text /= <<>>
HasOp(requests, op) == \E i \in 1..Len(requests) : requests[i].op = op

\* C1: after every call (the constructor included) the cursor is not below the
\* cursor before the call, and equals start_index plus the summed length of the
\* text of every insertText request emitted so far; style and bullet requests
\* add nothing to it.
C1_CursorIsStartPlusInserted ==
    /\ builder.cursor >= lastCall.cursor
    /\ builder.cursor = start_index + InsertedLength(builder.requests)

\* a second call that emits all four kinds of request and inserts two or more
\* characters, on a builder whose earlier call moved the cursor
C1_Witness ==
    /\ lastCall.n = 2
    /\ ParagraphAdded
    /\ HasOp(CallRequests, "updateParagraphStyle")
    /\ HasOp(CallRequests, "updateTextStyle")
    /\ HasOp(CallRequests, "createParagraphBullets")
    /\ lastCall.cursor > start_index
    /\ builder.cursor > lastCall.cursor + 1

\* the range of every paragraph style and bullet request of the last call is
\* the inserted text, terminator included
ParagraphRangeIsInsertedText ==
    LET ins == CallRequests[1]
    IN  /\ ins.op = "insertText"
        /\ ins.startIndex = lastCall.cursor
        /\ \A i \in 2..Len(CallRequests) :
              CallRequests[i].op \in {"updateParagraphStyle", "createParagraphBullets"}
              => /\ CallRequests[i].startIndex = ins.startIndex
                 /\ CallRequests[i].endIndex = ins.startIndex + Len(ins.text)

\* C2: for every non-empty text passed to add_paragraph, the inserted text ends
\* with exactly one newline, and the range of the paragraph style and bullet
\* requests is the inserted text with that newline.
C2_ExactlyOneTrailingNewline ==
    ParagraphAdded =>
        /\ TrailingNewlines(CallRequests[1].text) = 1
        /\ ParagraphRangeIsInsertedText

\* the rank of a request kind in the order add_paragraph is to emit them
OpRank(op) ==
    CASE op = "insertText" -> 0
      [] op = "updateParagraphStyle" -> 1
      [] op = "updateTextStyle" -> 2
      [] OTHER -> 3

\* the index of the last insertText request at or before i, 0 when none
RECURSIVE LastInsertBefore(_, _)
LastInsertBefore(requests, i) ==
    IF i = 0 THEN 0
    ELSE IF requests[i].op = "insertText" THEN i
    ELSE LastInsertBefore(requests, i - 1)

IsTextStyleRequest(r) == r.op = "updateTextStyle"
IsProperSpan(span) == span.end > span.start

\* the updateTextStyle requests of the last call are its spans with
\* end > start, in span order, moved by the start of the paragraph
TextStylesInSpanOrder ==
    LET styled == SelectSeq(CallRequests, IsTextStyleRequest)
        proper == SelectSeq(lastCall.spans, IsProperSpan)
    IN  /\ Len(styled) = Len(proper)
        /\ \A k \in 1..Len(styled) :
              /\ styled[k].startIndex = lastCall.cursor + proper[k].start
              /\ styled[k].endIndex = lastCall.cursor + proper[k].end
              /\ styled[k].textStyle = proper[k].style

\* C3: in the batch build_markdown_requests has built so far, every paragraph
\* style, text style and bullet request comes after an insertText request and,
\* up to the next insertText, covers text of the nearest one before it; its
\* range is non-empty and inside [start_index, cursor) as the cursor stood when
\* it was emitted; between two insertText requests the order is at most one
\* paragraph style, then the text styles, then at most one bullet request, and
\* the text styles of a call follow the order of its spans.
C3_BatchInApplicationOrder ==
    LET requests == builder.requests
    IN  /\ \A i \in 1..Len(requests) :
              requests[i].op /= "insertText" =>
                  LET j == LastInsertBefore(requests, i)
                      emitted == start_index + InsertedLength(SubSeq(requests, 1, i))
                  IN  /\ j > 0
                      /\ requests[j].startIndex <= requests[i].startIndex
                      /\ requests[i].endIndex <= requests[j].startIndex + Len(requests[j].text)
                      /\ start_index <= requests[i].startIndex
                      /\ requests[i].startIndex < requests[i].endIndex
                      /\ requests[i].endIndex <= emitted
        /\ \A i \in 1..(Len(requests) - 1) :
              requests[i + 1].op /= "insertText" =>
                  /\ OpRank(requests[i].op) <= OpRank(requests[i + 1].op)
                  /\ OpRank(requests[i].op) = OpRank(requests[i + 1].op)
                     => requests[i].op = "updateTextStyle"
        /\ ParagraphAdded =>
              /\ CallRequests[1].op = "insertText"
              /\ \A i \in 2..Len(CallRequests) : CallRequests[i].op /= "insertText"
              /\ TextStylesInSpanOrder

\* a list item in bold rendered after a heading: the batch holds a paragraph
\* style, and the last call emitted insertText, a text style and bullets
C3_Witness ==
    /\ rmode = "done"
    /\ HasOp(builder.requests, "updateParagraphStyle")
    /\ ParagraphAdded
    /\ lastCall.nreq > 0
    /\ Len(CallRequests) = 3
    /\ CallRequests[2].op = "updateTextStyle"
    /\ CallRequests[3].op = "createParagraphBullets"

TextStyleRangesIn(lo, hi) ==
    \A i \in 1..Len(CallRequests) :
        CallRequests[i].op = "updateTextStyle"
        => /\ lo <= CallRequests[i].startIndex
           /\ CallRequests[i].endIndex <= hi

TextStyleRangesNonEmpty ==
    \A i \in 1..Len(CallRequests) :
        CallRequests[i].op = "updateTextStyle"
        => CallRequests[i].startIndex < CallRequests[i].endIndex

\* C4: whatever text and spans are passed to add_paragraph, every
\* updateTextStyle range of the call is non-empty and lies inside [start, end),
\* the range of the text the call inserted.
C4_TextStyleInsideParagraph ==
    ParagraphAdded =>
        /\ TextStyleRangesNonEmpty
        /\ TextStyleRangesIn(CallRequests[1].startIndex,
                             CallRequests[1].startIndex + Len(CallRequests[1].text))

----------------------------------------------------------------------------
(* Claims about _parse_inline *)

\* C5: for any sequence of children, inline code of length zero included,
\* every span _parse_inline returns has 0 <= start < end <= len(returned text).
C5_ReturnedSpansNonEmptyInText ==
    parsed.returned =>
        \A i \in 1..Len(parsed.spans) :
            /\ 0 <= parsed.spans[i].start
            /\ parsed.spans[i].start < parsed.spans[i].end
            /\ parsed.spans[i].end <= Len(parsed.text)

----------------------------------------------------------------------------
(* Claims about the tab walker *)

\* the positions of the tabs of a tab list: the child indexes from a root down
RECURSIVE AllPaths(_)
AllPaths(tabs) ==
    UNION {{<<i>>} \cup {<<i>> \o q : q \in AllPaths(tabs[i].childTabs)} : i \in 1..Len(tabs)}

RECURSIVE NodeAt(_, _)
NodeAt(tabs, path) ==
    IF Len(path) = 1 THEN tabs[path[1]] ELSE NodeAt(tabs[path[1]].childTabs, Tail(path))

\* p is before q in pre-order: p is a proper prefix of q, or p branches off to
\* an earlier sibling where they first differ
RECURSIVE Before(_, _)
Before(p, q) ==
    IF p = <<>> THEN q /= <<>>
    ELSE IF q = <<>> THEN FALSE
    ELSE Head(p) < Head(q) \/ (Head(p) = Head(q) /\ Before(Tail(p), Tail(q)))

PreorderRank(tabs, p) == 1 + Cardinality({q \in AllPaths(tabs) : Before(q, p)})

ParentPath(p) == SubSeq(p, 1, Len(p) - 1)

\* C7: the metadata list of a document with tabs has one entry per tab, in
\* pre-order (a parent before its descendants, siblings in their order): the
\* entry at a tab's pre-order rank has that tab's id, its depth below the roots
\* and its parent's id (none for a root).
C7_FlattenIsPreorder ==
    (tabOp.op = "list_tabs" /\ doc.tabs /= <<>>) =>
        /\ Len(tabOp.metadata) = Cardinality(AllPaths(doc.tabs))
        /\ \A p \in AllPaths(doc.tabs) :
              LET entry == tabOp.metadata[PreorderRank(doc.tabs, p)]
              IN  /\ FlattenTabs(doc)[PreorderRank(doc.tabs, p)] = NodeAt(doc.tabs, p)
                  /\ entry.tab_id = NodeAt(doc.tabs, p).tabId
                  /\ entry.depth = Len(p) - 1
                  /\ entry.parent_id = IF Len(p) = 1 THEN NoneV
                                       ELSE NodeAt(doc.tabs, ParentPath(p)).tabId

\* the tree A -> [B, C], C -> [D] flattened to A/0, B/1/A, C/1/A, D/2/C
C7_Witness ==
    /\ doc.tabs = <<Tab("A", "Tab", <<Tab("B", "Tab", <<>>),
                                      Tab("C", "Tab", <<Tab("D", "Tab", <<>>)>>)>>)>>
    /\ tabOp.op = "list_tabs"
    /\ tabOp.metadata = <<TabMetadata("A", "Tab", 0, NoneV), TabMetadata("B", "Tab", 1, "A"),
                          TabMetadata("C", "Tab", 1, "A"), TabMetadata("D", "Tab", 2, "C")>>

PathsWithId(tabs, tab_id) == {p \in AllPaths(tabs) : NodeAt(tabs, p).tabId = tab_id}

\* C8: _resolve_tab with a requested id (a non-empty string) returns the first
\* tab in pre-order that has the id, and the id; it raises a not-found error
\* naming the id when no tab has it; with no id requested it returns the first
\* root tab and its id, or (None, None) for a document without tabs.
C8_ResolveTab ==
    tabOp.op = "resolve_tab" =>
        LET r == tabOp.requested
            res == tabOp.result
            hits == PathsWithId(doc.tabs, r)
        IN  /\ (Truthy(r) /\ hits /= {}) =>
                  /\ ~res.raised
                  /\ res.tab_id = r
                  /\ \E p \in hits :
                        /\ \A q \in hits : q = p \/ Before(p, q)
                        /\ res.tab = <<NodeAt(doc.tabs, p)>>
            /\ (Truthy(r) /\ hits = {}) =>
                  /\ res.raised
                  /\ \E i \in 1..Len(res.message) : res.message[i] = r
                  /\ res.tab = <<>>
            /\ (~Truthy(r) /\ doc.tabs /= <<>>) =>
                  /\ ~res.raised
                  /\ res.tab = <<doc.tabs[1]>>
                  /\ res.tab_id = doc.tabs[1].tabId
            /\ (~Truthy(r) /\ doc.tabs = <<>>) =>
                  /\ ~res.raised
                  /\ res.tab = <<>>
                  /\ res.tab_id = NoneV

\* an absent id is requested from a document with tabs and the error names it
C8_Witness ==
    /\ tabOp.op = "resolve_tab"
    /\ tabOp.requested = "Z"
    /\ Len(doc.tabs) = 2
    /\ tabOp.result.raised
    /\ tabOp.result.message = <<"Tab '", "Z", "' not found in document.">>

RECURSIVE CountTabs(_)
CountTabs(tabs) ==
    IF tabs = <<>> THEN 0
    ELSE 1 + CountTabs(Head(tabs).childTabs) + CountTabs(Tail(tabs))

\* C9: the metadata list is never empty; for a document without tabs it is the
\* one entry (tab_id None, the document's title, depth 0, parent_id None), and
\* for a document with tabs it has as many entries as there are tabs, none of
\* them the document's own.
C9_MetadataNeverEmpty ==
    tabOp.op = "list_tabs" =>
        /\ Len(tabOp.metadata) >= 1
        /\ doc.tabs = <<>> => tabOp.metadata = <<TabMetadata(NoneV, doc.title, 0, NoneV)>>
        /\ doc.tabs /= <<>> =>
              /\ Len(tabOp.metadata) = CountTabs(doc.tabs)
              /\ \A i \in 1..Len(tabOp.metadata) : tabOp.metadata[i].title /= doc.title

C9_Witness ==
    /\ tabOp.op = "list_tabs"
    /\ doc.tabs = <<>>
    /\ tabOp.metadata = <<TabMetadata(NoneV, "Doc", 0, NoneV)>>

----------------------------------------------------------------------------
(* Claims about the extractor *)

IsCodeAt(i) == IsCodeBlockParagraph(document[i].paragraph)
OnlyParagraphs == \A i \in 1..Len(document) : document[i].kind = "paragraph"

\* the text the extractor keeps of paragraph i
TextAt(i) ==
    RStripNL(Join(ParagraphTextParts(document[i].paragraph, IsCodeAt(i))))

\* what paragraph i is to add: a fence if it is code and the paragraph before
\* is not, or the other way round, then its chunk if it has text
ChunksAt(i) ==
    (IF IsCodeAt(i) /= (i > 1 /\ IsCodeAt(i - 1)) THEN <<Fence>> ELSE <<>>)
    \o (IF TextAt(i) /= <<>>
        THEN <<ParagraphChunk(document[i].paragraph.namedStyleType, TextAt(i))>>
        ELSE <<>>)

RECURSIVE ChunksUpTo(_)
ChunksUpTo(n) == IF n = 0 THEN <<>> ELSE ChunksUpTo(n - 1) \o ChunksAt(n)

\* the paragraphs that start a maximal run of code paragraphs
CodeRunStarts == {i \in 1..Len(document) : IsCodeAt(i) /\ (i = 1 \/ ~IsCodeAt(i - 1))}

IsFenceChunk(chunk) == chunk = Fence
FenceCount(chunks) == Len(SelectSeq(chunks, IsFenceChunk))

\* C10: on a body of paragraphs only, the chunks after i paragraphs are, for
\* each paragraph in turn, a fence where code follows non-code or non-code
\* follows code and then the paragraph's text; the returned text has one more
\* fence when the last paragraph is code, so it has two fences for every
\* maximal run of code paragraphs; and heading A, "body", code "x=1", "end"
\* gives "# A", a blank line, "body", a fence, "x=1", a fence, "end".
C10_FencesAtTransitions ==
    (OnlyParagraphs /\ extracted.state /= "waiting") =>
        /\ extracted.state = "running" =>
              /\ ext.chunks = ChunksUpTo(ei)
              /\ ext.in_code_block = (ei > 0 /\ IsCodeAt(ei))
        /\ extracted.state = "returned" =>
              LET n == Len(document)
                  closing == IF n > 0 /\ IsCodeAt(n) THEN <<Fence>> ELSE <<>>
              IN  /\ ext.chunks = ChunksUpTo(n) \o closing
                  /\ FenceCount(ext.chunks) = 2 * Cardinality(CodeRunStarts)
                  /\ extracted.text = Strip(Join(ext.chunks))
                  /\ document = ExampleBody => extracted.text = ExampleMarkup

\* code, text, code: two runs, the second closed after the loop
C10_Witness ==
    /\ extracted.state = "returned"
    /\ OnlyParagraphs
    /\ Len(document) = 3
    /\ IsCodeAt(1) /\ ~IsCodeAt(2) /\ IsCodeAt(3)
    /\ TextAt(1) /= <<>> /\ TextAt(2) /= <<>> /\ TextAt(3) /= <<>>
    /\ FenceCount(ext.chunks) = 4

----------------------------------------------------------------------------
(* The round trip of a markup text *)

\* an item of a markup text: a heading with its level and text, a line of
\* plain text, or a code region with its lines
Item(kind, level, lines) == [kind |-> kind, level |-> level, lines |-> lines]

\* text.split("\n")
RECURSIVE SplitLines(_)
SplitLines(text) ==
    IF \A i \in 1..Len(text) : text[i] /= NL THEN <<text>>
    ELSE LET k == CHOOSE i \in 1..Len(text) :
                     text[i] = NL /\ \A m \in 1..(i - 1) : text[m] /= NL
         IN  <<SubSeq(text, 1, k - 1)>> \o SplitLines(SubSeq(text, k + 1, Len(text)))

RECURSIVE LeadingHashes(_)
LeadingHashes(line) ==
    IF line /= <<>> /\ Head(line) = "#" THEN 1 + LeadingHashes(Tail(line)) ELSE 0

\* the items of a text read line by line: a fence line opens or closes a code
\* region, hashes and a space start a heading, a blank line separates
RECURSIVE ReadLines(_, _, _)
ReadLines(lines, items, in_code) ==
    IF lines = <<>> THEN items
    ELSE LET line == RStrip(Head(lines))
             k == LeadingHashes(line)
         IN  IF line = <<Backtick, Backtick, Backtick>>
             THEN ReadLines(Tail(lines),
                            IF in_code THEN items ELSE Append(items, Item("code", 0, <<>>)),
                            ~in_code)
             ELSE IF in_code
             THEN ReadLines(Tail(lines),
                            [items EXCEPT ![Len(items)].lines = Append(@, line)], TRUE)
             ELSE IF line = <<>> THEN ReadLines(Tail(lines), items, FALSE)
             ELSE IF k > 0 /\ Len(line) > k /\ line[k + 1] = " "
             THEN ReadLines(Tail(lines),
                            Append(items, Item("heading", k, <<SubSeq(line, k + 2, Len(line))>>)),
                            FALSE)
             ELSE ReadLines(Tail(lines), Append(items, Item("text", 0, <<line>>)), FALSE)

ReadItems(text) == ReadLines(SplitLines(text), <<>>, FALSE)

RECURSIVE TextItems(_)
TextItems(lines) ==
    IF lines = <<>> THEN <<>>
    ELSE (IF RStrip(Head(lines)) = <<>> THEN <<>>
          ELSE <<Item("text", 0, <<RStrip(Head(lines))>>)>>) \o TextItems(Tail(lines))

RStripEach(lines) == [i \in 1..Len(lines) |-> RStrip(lines[i])]

\* the items of a block; a heading without text and a fence without content
\* have nothing to compare
BlockItems(b) ==
    CASE b.kind = "heading" ->
            IF Strip(ParseInline(b.kids).text) = <<>> THEN <<>>
            ELSE <<Item("heading", b.level, <<RStrip(ParseInline(b.kids).text)>>)>>
      [] b.kind = "paragraph" -> TextItems(SplitLines(ParseInline(b.kids).text))
      [] b.kind = "fence" ->
            IF RStrip(b.content) = <<>> THEN <<>>
            ELSE <<Item("code", 0, RStripEach(SplitLines(RStrip(b.content))))>>
      [] OTHER -> <<>>

RECURSIVE MarkupItems(_)
MarkupItems(blocks) ==
    IF blocks = <<>> THEN <<>> ELSE BlockItems(Head(blocks)) \o MarkupItems(Tail(blocks))

HeadingsParagraphsFences ==
    \A i \in 1..Len(markdown) : markdown[i].kind \in {"heading", "paragraph", "fence"}

RoundTripDone == rmode = "done" /\ extracted.state = "returned"

\* C6: for a markup text of headings, paragraphs and fenced code blocks, the
\* text extracted from the empty document its batch was applied to has the
\* items of the markup text: the same plain lines, the same headings with
\* their levels, and the same code regions with the same lines each.
C6_RoundTrip ==
    (RoundTripDone /\ HeadingsParagraphsFences) =>
        ReadItems(extracted.text) = MarkupItems(markdown)


----------------------------------------------------------------------------
(* Tables in the extractor *)

\* the concatenation of the first n strings of f
RECURSIVE ConcatTo(_, _)
ConcatTo(f, n) == IF n = 0 THEN <<>> ELSE ConcatTo(f, n - 1) \o f[n]

\* the text of a paragraph's text runs, in order
RunsTextOf(p) ==
    ConcatTo([j \in 1..Len(p.elements) |->
                 IF p.elements[j].has_text_run THEN p.elements[j].content ELSE <<>>],
             Len(p.elements))

\* the text of a cell's paragraphs, in order
CellTextOf(cell) ==
    ConcatTo([k \in 1..Len(cell.content) |->
                 IF cell.content[k] = <<>> THEN <<>> ELSE RunsTextOf(cell.content[k][1])],
             Len(cell.content))

\* the cells' text in row-major order: rows in order, in a row its cells in order
RowMajorText(table) ==
    ConcatTo([r \in 1..Len(table) |->
                 ConcatTo([c \in 1..Len(table[r]) |-> CellTextOf(table[r][c])],
                          Len(table[r]))],
             Len(table))

\* the positions <<row, column>> of a table's cells
CellPositions(table) ==
    UNION {{<<r, c>> : c \in 1..Len(table[r])} : r \in 1..Len(table)}

\* one row of one cell, light on all three channels, some text run in monospace
OneLightMonospaceCell(table) ==
    /\ Len(table) = 1
    /\ Cardinality(CellPositions(table)) = 1
    /\ LET cell == table[1][1]
       IN  /\ cell.red > 90 /\ cell.green > 90 /\ cell.blue > 90
           /\ \E k \in 1..Len(cell.content) :
                 /\ cell.content[k] /= <<>>
                 /\ \E e \in {cell.content[k][1].elements[j] :
                                 j \in 1..Len(cell.content[k][1].elements)} :
                       e.has_text_run
                       /\ e.textStyle.fontFamily \in {"Roboto Mono", "Courier New"}

\* C11: the step of the loop at a table adds an opening fence, the cells' text
\* in row-major order and a closing fence exactly when the table is one row of
\* one cell that is light on all three channels and has a monospace text run,
\* whatever the text (the empty text included); at any other table it adds the
\* cells' text alone; the open-code-block flag is left as it was.
C11_TableFencedIffCodeCell ==
    [][ElementKind = "table" =>
          LET table == document[ei + 1].table
          IN  /\ ext'.chunks =
                    ext.chunks \o (IF OneLightMonospaceCell(table)
                                   THEN <<Fence, RowMajorText(table), Fence>>
                                   ELSE <<RowMajorText(table)>>)
              /\ ext'.in_code_block = ext.in_code_block]_vars

\* a light monospace 1x1 table of no text has been emitted between two fences
C11_Witness ==
    /\ extracted.state = "running"
    /\ ei = 2
    /\ document[1].kind = "table" /\ document[1].table = TwoByTwo
    /\ document[2].kind = "table" /\ document[2].table = EmptyCodeTable
    /\ ext.chunks = <<<<"a", "b", "c", "d", NL>>, Fence, <<>>, Fence>>


----------------------------------------------------------------------------
(* Fenced code blocks in the renderer *)

\* a text with one trailing newline removed, if it has one
StripOneNL(text) == IF EndsWithNL(text) THEN SubSeq(text, 1, Len(text) - 1) ELSE text

IsInsertText(r) == r.op = "insertText"

\* C12: the step of the main loop at a fence takes the fence content with
\* exactly one trailing newline removed; if that is non-empty the step adds
\* exactly one insertText request, whose text is that result and one
\* terminator, and if it is empty the step adds no request.
C12_FenceStripsOneNewline ==
    [][TokenType("main") = "fence" =>
          LET code_text == StripOneNL(tokens[ti + 1].content)
              added == SubSeq(builder'.requests, Len(builder.requests) + 1,
                              Len(builder'.requests))
              inserts == SelectSeq(added, IsInsertText)
          IN  IF code_text /= <<>>
              THEN /\ Len(inserts) = 1
                   /\ inserts[1].text = code_text \o <<NL>>
              ELSE added = <<>>]_vars


----------------------------------------------------------------------------
(* Lists in the renderer *)

\* the kinds of the lists open before token k, the innermost last
RECURSIVE OpenLists(_)
OpenLists(k) ==
    IF k <= 1 THEN <<>>
    ELSE LET before == OpenLists(k - 1)
             type == tokens[k - 1].type
         IN  CASE type = "bullet_list_open" -> Append(before, "bullet")
               [] type = "ordered_list_open" -> Append(before, "ordered")
               [] type \in {"bullet_list_close", "ordered_list_close"} ->
                     SubSeq(before, 1, Len(before) - 1)
               [] OTHER -> before

\* token k opens a paragraph inside a list item
IsListParagraph(k) == tokens[k].type = "paragraph_open" /\ OpenLists(k) /= <<>>
ListParagraphs == {k \in 1..Len(tokens) : IsListParagraph(k)}

IsBullets(r) == r.op = "createParagraphBullets"

\* C13: when the renderer is at a paragraph of a list item, whatever the depth
\* of its list and whatever came before it in the list, its step adds one
\* insertText request and exactly one createParagraphBullets request, over the
\* range of the inserted text, with the numbered preset if the paragraph's own
\* list is ordered and the disc preset if it is unordered; so the finished
\* batch has one bullet request for every paragraph of a list item.
C13_ListParagraphsGetBullets ==
    /\ [][(rmode \in {"main", "list", "item"} /\ ti < Len(tokens)
           /\ IsListParagraph(ti + 1)) =>
             LET lists == OpenLists(ti + 1)
                 added == SubSeq(builder'.requests, Len(builder.requests) + 1,
                                 Len(builder'.requests))
                 inserts == SelectSeq(added, IsInsertText)
                 bullets == SelectSeq(added, IsBullets)
             IN  /\ Len(inserts) = 1
                 /\ Len(bullets) = 1
                 /\ bullets[1].startIndex = inserts[1].startIndex
                 /\ bullets[1].endIndex = inserts[1].startIndex + Len(inserts[1].text)
                 /\ bullets[1].bulletPreset =
                       (IF lists[Len(lists)] = "ordered" THEN "NUMBERED_DECIMAL_ALPHA_ROMAN"
                        ELSE "BULLET_DISC_CIRCLE_SQUARE")]_vars
    /\ [](rmode = "done" =>
             Len(SelectSeq(builder.requests, IsBullets)) = Cardinality(ListParagraphs))


----------------------------------------------------------------------------
(* The service operations: tabs and remote failures *)

\* the ids of the tabs of a tab list, child tabs included
RECURSIVE TabIdSet(_)
TabIdSet(tabs) ==
    UNION {{tabs[i].tabId} \cup TabIdSet(tabs[i].childTabs) : i \in 1..Len(tabs)}

NotFoundMessage(tab_id) == <<"Tab '", tab_id, "' not found in document.">>
WholeDocumentCalls == {"files.export", "files.update"}
Issued(apis) == \E i \in 1..Len(svc.calls) : svc.calls[i].api \in apis

\* C14: fetch_document, replace_document or append_text called with the id of
\* a tab the document has ends with a raised error that is not the
\* tab-not-found error, and has issued neither the export nor the update of
\* the whole document.
C14_TabScopedRejected ==
    (/\ svc.op \in {"fetch_document", "replace_document", "append_text"}
     /\ Truthy(svc.tab_id)
     /\ svc.tab_id \in TabIdSet(remote.doc.tabs)) =>
        /\ svc.out.kind = "GoogleDocsError"
        /\ svc.out.message /= NotFoundMessage(svc.tab_id)
        /\ ~Issued(WholeDocumentCalls)

\* C15: an operation never ends with the raw HttpError; a remote call that
\* failed is the last call the operation issued, and the operation ends with
\* a GoogleDocsError whose message is the reason of that failure.
C15_RemoteFailureWrapped ==
    svc.op /= "none" =>
        /\ svc.out.kind /= "HttpError"
        /\ \A i \in 1..Len(svc.calls) :
              ~svc.calls[i].ok =>
                  /\ i = Len(svc.calls)
                  /\ svc.out.kind = "GoogleDocsError"
                  /\ svc.out.message = svc.calls[i].reason

\* C16: a step that runs replace_document or append_text with a non-empty tab
\* id the document does not have leaves the remote service as it was and
\* issues no Drive update; unless fetching the document failed, it ends with
\* the GoogleDocsError that says the tab was not found.
C16_AbsentTabWritesNothing ==
    [][(/\ svc'.n = svc.n + 1
        /\ svc'.op \in {"replace_document", "append_text"}
        /\ Truthy(svc'.tab_id)
        /\ svc'.tab_id \notin TabIdSet(remote.doc.tabs)) =>
          /\ remote' = remote
          /\ \A i \in 1..Len(svc'.calls) : svc'.calls[i].api /= "files.update"
          /\ svc'.calls[1].ok =>
                /\ svc'.out.kind = "GoogleDocsError"
                /\ svc'.out.message = NotFoundMessage(svc'.tab_id)]_vars

\* append_text for tab Z on a document with tabs A, B, C and content: the
\* document was fetched, nothing else was called, the error says Z is not found
C16_Witness ==
    /\ svc.op = "append_text"
    /\ svc.tab_id = "Z"
    /\ svc.text /= <<>>
    /\ TabIdSet(remote.doc.tabs) = {"A", "B", "C"}
    /\ remote.content /= <<>>
    /\ svc.calls = <<[api |-> "documents.get", ok |-> TRUE, reason |-> <<>>]>>
    /\ svc.out = Raise("GoogleDocsError", NotFoundMessage("Z"))


----------------------------------------------------------------------------
(* Openers and closers in the inline span parser *)

OpenKind(type) ==
    CASE type = "strong_open" -> "bold"
      [] type = "em_open" -> "italic"
      [] type = "link_open" -> "link"
      [] OTHER -> NoneV

CloseKind(type) ==
    CASE type = "strong_close" -> "bold"
      [] type = "em_close" -> "italic"
      [] type = "link_close" -> "link"
      [] OTHER -> NoneV

\* the opener the closer at position j closes: the latest opener of its kind
\* before j that no closer before j has closed; 0 when there is none or j is
\* no closer
RECURSIVE MatchOf(_)
MatchOf(j) ==
    LET kind == CloseKind(children[j].type)
        open == {i \in 1..(j - 1) :
                    /\ OpenKind(children[i].type) = kind
                    /\ \A c \in (i + 1)..(j - 1) : MatchOf(c) /= i}
    IN  IF kind = NoneV \/ open = {} THEN 0
        ELSE CHOOSE i \in open : \A other \in open : other <= i

\* the length of the text the child adds
TextLength(child) ==
    CASE child.type \in {"text", "code_inline"} -> Len(child.content)
      [] child.type \in {"softbreak", "hardbreak"} -> 1
      [] OTHER -> 0

\* the offset in the text after the first i children
RECURSIVE Offset(_)
Offset(i) == IF i = 0 THEN 0 ELSE Offset(i - 1) + TextLength(children[i])

\* position i is an opener that no closer among the children read so far closed
StillOpen(i) ==
    /\ OpenKind(children[i].type) /= NoneV
    /\ \A c \in (i + 1)..pos : MatchOf(c) /= i

OpenPositions == SelectSeq([i \in 1..pos |-> i], StillOpen)

\* C17: after any number of children the stack holds exactly the openers not
\* yet closed, oldest first, each with its own offset, where a closer of a kind
\* closes the latest still-open opener of that kind and nothing else, wherever
\* that opener is in the stack; and bold-open, italic-open, text, bold-close,
\* text, italic-close returns a bold span over the first text and an italic
\* span over both texts.
C17_CloserPopsInnermostOfKind ==
    /\ inl.stack = [k \in 1..Len(OpenPositions) |->
                       Frame(OpenKind(children[OpenPositions[k]].type),
                             Offset(OpenPositions[k]),
                             children[OpenPositions[k]].href)]
    /\ (parsed.returned /\ children = OverlapExample) =>
          parsed.spans = <<Span(0, 1, TextStyle("bold", NoneV)),
                           Span(0, 2, TextStyle("italic", NoneV))>>

\* the overlapping example has been parsed to its end
C17_Witness ==
    /\ parsed.returned
    /\ children = OverlapExample
    /\ Len(parsed.spans) = 2
    /\ inl.stack = <<>>

\* position j is a closer whose pair yields a span: it closes an opener, the
\* pair encloses text, and a link's opener has a destination
YieldsSpan(j) ==
    /\ MatchOf(j) > 0
    /\ Offset(MatchOf(j)) < Offset(j)
    /\ CloseKind(children[j].type) = "link" => Truthy(children[MatchOf(j)].href)

SpanClosers == SelectSeq([j \in 1..Len(children) |-> j], YieldsSpan)
IsDelimiterSpan(span) == span.style.kind \in {"bold", "italic", "link"}

\* C18: for every sequence of children the parser reaches its return, and the
\* bold, italic and link spans it returns are, in closer order, one for each
\* closer that closes an opener of its kind with text between them (and, for a
\* link, a destination on the opener), from the opener's offset to the
\* closer's; openers never closed, closers with nothing open, pairs enclosing
\* no text and links without a destination add nothing.
C18_SpansArePairs ==
    /\ ~parsed.returned => pos <= Len(children)
    /\ parsed.returned =>
          LET delimited == SelectSeq(parsed.spans, IsDelimiterSpan)
          IN  /\ pos = Len(children)
              /\ Len(parsed.text) = Offset(Len(children))
              /\ delimited =
                    [k \in 1..Len(SpanClosers) |->
                        Span(Offset(MatchOf(SpanClosers[k])), Offset(SpanClosers[k]),
                             TextStyle(CloseKind(children[SpanClosers[k]].type),
                                       children[MatchOf(SpanClosers[k])].href))]

\* a link with a destination closed over a text, after a closer with nothing
\* open: one span, for the link
C18_Witness ==
    /\ parsed.returned
    /\ Len(children) = 3
    /\ children[1].type = "link_open" /\ Truthy(children[1].href)
    /\ children[2].type = "text"
    /\ children[3].type = "link_close"
    /\ parsed.spans = <<Span(0, 1, TextStyle("link", "u"))>>


----------------------------------------------------------------------------
(* Paragraphs in the extractor *)

\* the paragraph the loop is at, and the text the extractor keeps of it
ParagraphAtLoop == document[ei + 1].paragraph
KeptText(p) == RStripNL(Join(ParagraphTextParts(p, IsCodeBlockParagraph(p))))

\* C19: the step at a paragraph whose text, without the trailing newline, is
\* empty or only whitespace adds no line; it adds a fence exactly when the
\* paragraph is code and no code block is open or the paragraph is not code
\* and one is open, and the flag follows the paragraph.
C19_BlankParagraphAddsNoLine ==
    [][(ElementKind = "paragraph" /\ Strip(KeptText(ParagraphAtLoop)) = <<>>) =>
          LET is_code == IsCodeBlockParagraph(ParagraphAtLoop)
          IN  /\ ext'.chunks =
                    ext.chunks \o (IF is_code /= ext.in_code_block THEN <<Fence>> ELSE <<>>)
              /\ ext'.in_code_block = is_code]_vars


\* the first element of the paragraph is a text run whose text begins with
\* the marker
BeginsWithMarker(p) ==
    /\ p.elements /= <<>>
    /\ p.elements[1].has_text_run
    /\ p.elements[1].content /= <<>>
    /\ p.elements[1].content[1] = CodeMarker

\* the first element is a text run in a monospace family on a background
\* that is light on all three channels
FirstRunLooksLikeCode(p) ==
    /\ p.elements /= <<>>
    /\ p.elements[1].has_text_run
    /\ p.elements[1].textStyle.fontFamily \in {"Roboto Mono", "Courier New"}
    /\ p.elements[1].textStyle.red > 90
    /\ p.elements[1].textStyle.green > 90
    /\ p.elements[1].textStyle.blue > 90

MarkedAsCode(p) == BeginsWithMarker(p) \/ FirstRunLooksLikeCode(p)

\* the chunks the step at a paragraph is to add for the given text: the fence
\* of a change between code and text, then the line if the text is not empty
ChunksFor(p, text) ==
    (IF MarkedAsCode(p) /= ext.in_code_block THEN <<Fence>> ELSE <<>>)
    \o (IF RStripNL(text) /= <<>>
        THEN <<ParagraphChunk(p.namedStyleType, RStripNL(text))>> ELSE <<>>)

\* the paragraph is handled as code exactly when it is marked as code
ClassifiedByFirstRun == ext'.in_code_block = MarkedAsCode(ParagraphAtLoop)

\* the text chunks, fences aside, the step has added
IsTextChunk(chunk) == chunk /= Fence
AddedText == SelectSeq(SubSeq(ext'.chunks, Len(ext.chunks) + 1, Len(ext'.chunks)),
                       IsTextChunk)

\* C20: the step at a paragraph handles it as code exactly when its first
\* element is a text run that begins with the marker or has a monospace family
\* on a light background; it emits the text of all runs with exactly one
\* leading marker removed when the first run begins with it (a second marker
\* behind it stays), and the text of a paragraph that is not code as it is.
C20_OneLeadingMarkerRemoved ==
    [][ElementKind = "paragraph" =>
          LET p == ParagraphAtLoop
              text == IF BeginsWithMarker(p) THEN Tail(RunsTextOf(p)) ELSE RunsTextOf(p)
          IN  /\ ClassifiedByFirstRun
              /\ ext'.chunks = ext.chunks \o ChunksFor(p, text)]_vars

\* a paragraph whose first run begins with two markers has been emitted with
\* the second marker in front
C20_Witness ==
    /\ extracted.state = "running"
    /\ ei = 1
    /\ BeginsWithMarker(document[1].paragraph)
    /\ ext.in_code_block
    /\ ext.chunks = <<Fence, <<CodeMarker, "x", NL>>>>

\* C20 as stated: classification by the first run, and the text emitted for a
\* code paragraph never starts with the marker, while the text of a paragraph
\* that is not code is emitted as it is.
C20_NeverStartsWithMarker ==
    [][ElementKind = "paragraph" =>
          LET p == ParagraphAtLoop
          IN  /\ ClassifiedByFirstRun
              /\ MarkedAsCode(p) =>
                    \A k \in 1..Len(AddedText) : AddedText[k][1] /= CodeMarker
              /\ ~MarkedAsCode(p) => ext'.chunks = ext.chunks \o ChunksFor(p, RunsTextOf(p))]_vars


----------------------------------------------------------------------------
(* Tables inside a run of code paragraphs *)

\* the chunks the step of the loop has added
AddedChunks == SubSeq(ext'.chunks, Len(ext.chunks) + 1, Len(ext'.chunks))

\* C21: the step at a table while a run of code paragraphs is open first
\* closes the open fence, then adds the table's text (between the table's own
\* two fences if the table is a code table), and leaves no code block open; so
\* no table text lies inside the fence of the paragraphs and no fence is
\* opened while another is open.
C21_TableClosesOpenFence ==
    [][(ElementKind = "table" /\ ext.in_code_block) =>
          LET table == document[ei + 1].table
          IN  /\ AddedChunks =
                    <<Fence>> \o (IF OneLightMonospaceCell(table)
                                  THEN <<Fence, RowMajorText(table), Fence>>
                                  ELSE <<RowMajorText(table)>>)
              /\ ~ext'.in_code_block]_vars

----------------------------------------------------------------------------
(* One use of an OAuth state *)

\* the finish_authorization calls that got the pending flow of the state
Redeemers(state) ==
    {t \in Threads : auth[t].op = "finish_authorization" /\ auth[t].flow = <<state>>}

\* the writes of the credentials of the state to the token file
Persisted(state) == {i \in DOMAIN token_file : token_file[i].state = state}

\* the writes thread t made to the token file
PersistedBy(t) == {i \in DOMAIN token_file : token_file[i].thread = t}

\* the finish_authorization calls that are past the pop
PastPop == {t \in Threads : /\ auth[t].op = "finish_authorization"
                            /\ auth[t].pc \in {"release", "unlocked", "returned"}}

\* C22: under every interleaving of the start_authorization and
\* finish_authorization calls of the threads, at most one call gets the
\* pending flow of a state and the credentials of a state are persisted at
\* most once, by that call; a call gets only the flow of its own state, and
\* only of a state that was started; and every finish_authorization call
\* that got no flow persists nothing and, once it has returned, has raised
\* AuthorizationFlowNotStarted.
C22_StateRedeemedOnce ==
    /\ \A state \in States :
          /\ Cardinality(Redeemers(state)) <= 1
          /\ Cardinality(Persisted(state)) <= 1
          /\ \A i \in Persisted(state) : token_file[i].thread \in Redeemers(state)
    /\ \A t \in PastPop :
          /\ auth[t].flow /= <<>> =>
                auth[t].flow = auth[t].state /\ auth[t].state[1] \in issued
          /\ auth[t].flow = <<>> =>
                /\ PersistedBy(t) = {}
                /\ auth[t].pc = "returned" => auth[t].out = "AuthorizationFlowNotStarted"

\* two calls with the same started state have returned: one persisted the
\* credentials and the other raised
C22_Witness ==
    \E t, u \in Threads :
        /\ t /= u
        /\ auth[t].op = "finish_authorization" /\ auth[u].op = "finish_authorization"
        /\ auth[t].state = auth[u].state
        /\ auth[t].pc = "returned" /\ auth[u].pc = "returned"
        /\ auth[t].out = "Credentials" /\ PersistedBy(t) /= {}
        /\ auth[u].out = "AuthorizationFlowNotStarted"

----------------------------------------------------------------------------
(* Concurrent append_text calls *)

\* every append_text call has returned a DocumentSummary
AllAppended ==
    \A t \in Appenders : /\ appends.call[t].pc = "returned"
                         /\ appends.call[t].out.kind = "DocumentSummary"

\* the content after the append_text calls of t and then of u, one after
\* the other, on a document of the content given
AppendedInTurn(content, t, u) ==
    CombinedContent(CombinedContent(content, appends.call[t].text), appends.call[u].text)

\* C23: when the two concurrent append_text calls have both returned
\* successfully, the content of the document is the previous content
\* followed by both appended texts, in one order or the other.
C23_NoLostUpdate ==
    AllAppended =>
        \E t, u \in Appenders :
            /\ t /= u
            /\ remote.content = AppendedInTurn(appends.previous, t, u)
====
